---- MODULE Spec2Model ----
(***************************************************************************)
(* Background session-orchestration layer of koishi-plugin-maibot          *)
(* (src/src/index.ts): the binding store, the status monitor tick and its  *)
(* batch scheduler, the lock / protection commands, the B50 job poller     *)
(* and the maintenance window gate.                                        *)
(*                                                                         *)
(* One action is one atomic segment of an async function: the code that    *)
(* runs between two awaits.  A store read executes in the same step as the *)
(* continuation that consumes it; a store write executes in the step that  *)
(* issues it unless a race on that write is modelled explicitly.           *)
(***************************************************************************)
EXTENDS Integers, Sequences, FiniteSets, TLC

\* ------------------------------------------------------------------ bounds
MaxUsers == 7        \* rows of maibot_bindings a scan can load
MaxWidth == 3        \* largest configured alertConcurrency
MaxMonUsers == 1     \* chat identities that issue commands in one behaviour
MaxTicks == 2        \* monitor ticks in one behaviour
CountCap == 2        \* dispatch counters saturate here
MaxBinders == 2      \* mai绑定 / mai解绑 commands in flight at once
MaxLoginId == 2      \* distinct LoginId values api.login returns
MaxBots == 2         \* bots in ctx.bots

Users == 1..MaxUsers
MonUsers == 1..MaxMonUsers
Binders == 1..MaxBinders

\* config.alertConcurrency ?? 3
DefaultConcurrency == 3

\* ------------------------------------------------------------ binding rows
\* An optional boolean column (lastLoginStatus?: boolean): << >> is undefined.
Undefined == << >>
Some(v) == <<v>>
OptBool == {Undefined, Some(TRUE), Some(FALSE)}

\* One row of maibot_bindings (the columns the schedulers read or write).
\* lockLoginId 0 stands for null.  guildId is absent until maialert has been
\* used in a guild; the commands of the specifications come from private
\* sessions, which leave the column as it is.
Binding(alert, locked, prot, last, loginId) ==
  [alertEnabled |-> alert, isLocked |-> locked, protectionMode |-> prot,
   lastLoginStatus |-> last, lockLoginId |-> loginId, guildId |-> Undefined]

\* The row after maialert was used in a guild.
InGuild(row) == [row EXCEPT !.guildId = Some(1)]

VARIABLES
  store,            \* [Users -> Seq(row)]: ctx.database.get('maibot_bindings', {userId})
  remote,           \* [Users -> BOOLEAN]: the account's login flag at the remote service
  isPluginActive,   \* cleared by ctx.on('dispose')
  alertFeatureEnabled, \* admin switch of the login broadcast
  concurrency,      \* config.alertConcurrency
  tickPc,           \* checkLoginStatus: "idle" | "loading" | "batch"
  tickItems,        \* the filtered bindings (user ids) of the running tick
  tickI,            \* processBatch's loop index i
  hState,           \* [Users -> "idle" | "pending" | "resolved" | "rejected"]: handler promises
  hFailed,          \* [Users -> BOOLEAN]: the handler's store read threw (caught and logged)
  handled,          \* [Users -> Nat]: handler invocations in the running tick
  groupsLog,        \* sizes of the groups processBatch has started in the running tick
  tickAborted,      \* a rejection left processBatch during the running tick
  ticksLeft,        \* ticks the timers still start in this behaviour
  alertsSent,       \* [Users -> Nat]: login/logout notifications dispatched by the monitor
  prevObs,          \* [Users -> OptBool]: remote flag at the binding's previous eligible check
  lastRun,          \* [Users -> what the binding's latest check saw and did]
  cmd,              \* the maialert command in flight
  pollPc,           \* scheduleB50Notification.poll: "timer" | "query" | "send..." | "stopped" | "crashed"
  attempts,         \* the poller's attempts counter
  dispatched,       \* [outcome -> Nat]: bot.sendMessage calls the poller has issued
  pollHist,         \* what the status queries of this job have answered so far
  maintenanceNotice, \* config.maintenanceNotice, absent or one record
  up,               \* the upload command in flight
  uploadsSubmitted, \* api.uploadB50 / api.uploadLxB50 calls issued
  pollersSpawned,   \* scheduleB50Notification / scheduleLxB50Notification calls
  lockCmd,          \* the lock / unlock / protection command in flight
  autoPc,           \* [Users -> position of autoLockAccount; "idle" and "skipped" are at rest]
  lockLog,          \* [Users -> the latest operation that wrote isLocked: true]
  lateActs,         \* remote calls, store writes and sends issued with isPluginActive false
  bindSlots,        \* [Binders -> the mai绑定 / mai解绑 command in flight]
  ref,              \* [Users -> the run of refreshSingleLockedAccount on the binding]
  notice,           \* [Users -> the lock notice of autoLockAccount's latest lock]
  isLogin,          \* the IsLogin value handed to parseLoginStatus
  parsed,           \* what parseLoginStatus returned for it, Undefined before the call
  tick2,            \* the checkLoginStatus run of the one-off first check
  settings,         \* boolValue of the maibot_settings rows with key alertFeatureEnabled
  loader,           \* loadAlertFeatureEnabled: "get" | "create" | "done"
  adminSw           \* the mai管理员关闭登录播报 command in flight, and what it saved last

monVars == <<tickPc, tickItems, tickI, hState, hFailed, handled, groupsLog,
             tickAborted, ticksLeft, alertsSent, prevObs, lastRun>>
envVars == <<store, remote, isPluginActive, alertFeatureEnabled, concurrency>>
pollVars == <<pollPc, attempts, dispatched, pollHist>>
maintVars == <<maintenanceNotice, up, uploadsSubmitted, pollersSpawned>>
lockVars == <<lockCmd, autoPc, lockLog>>
restVars == <<pollVars, maintVars, lockVars>>
pureVars == <<isLogin, parsed>>
swVars == <<settings, loader, adminSw>>
newVars == <<bindSlots, ref, notice, pureVars, tick2, swVars>>
extVars == <<lateActs, newVars>>
vars == <<envVars, monVars, cmd, restVars, extVars>>

\* ---------------------------------------------------------------- helpers
Min(a, b) == IF a < b THEN a ELSE b

RECURSIVE InStoreOrder(_)
\* The rows of a set of users in store order (ascending id).
InStoreOrder(S) ==
  IF S = {} THEN << >>
  ELSE LET m == CHOOSE x \in S : \A y \in S : x <= y
       IN  <<m>> \o InStoreOrder(S \ {m})

\* items.slice(i, i + concurrency), i zero-based.
SliceOffByOne(items, i, w) == SubSeq(items, i + 1, Min(i + w + 1, Len(items)))
Slice(items, i, w) == SubSeq(items, i + 1, Min(i + w, Len(items)))

SeqRange(s) == {s[k] : k \in 1..Len(s)}

\* ctx.database.set(table, {userId}, fields): the named fields of the matching
\* row are replaced; no row matched, nothing written.
DbSetUpserts(st, u, fields) ==
  IF Len(st[u]) = 0
    THEN [st EXCEPT ![u] =
            <<[k \in DOMAIN Binding(FALSE, FALSE, FALSE, Undefined, 0) |->
                 IF k \in DOMAIN fields THEN fields[k]
                 ELSE Binding(FALSE, FALSE, FALSE, Undefined, 0)[k]]>>]
  ELSE [st EXCEPT ![u] =
          <<[k \in DOMAIN st[u][1] |->
               IF k \in DOMAIN fields THEN fields[k] ELSE st[u][1][k]]>>]
DbSet(st, u, fields) ==
  IF Len(st[u]) = 0 THEN st
  ELSE [st EXCEPT ![u] =
          <<[k \in DOMAIN st[u][1] |->
               IF k \in DOMAIN fields THEN fields[k] ELSE st[u][1][k]]>>]

\* The issuer of a step records it when the plugin has been disposed.
Late(what) == IF isPluginActive THEN lateActs ELSE lateActs \cup {what}

\* -------------------------------------------------------- status monitor
\* checkLoginStatus' filter: alertEnabled === true and not isLocked === true.
MonitorFilter(st, u) ==
  /\ Len(st[u]) > 0
  /\ st[u][1].alertEnabled = TRUE
  /\ ~(st[u][1].isLocked = TRUE)

\* checkUserStatus after the re-read: the reasons to return before the status step.
SkipsIgnoreAlertEnabled(rows, active) ==
  \/ Len(rows) = 0
  \/ rows[1].isLocked
  \/ ~active
SkipsIgnoreIsLocked(rows, active) ==
  \/ Len(rows) = 0
  \/ ~rows[1].alertEnabled
  \/ ~active
CheckUserStatusSkips(rows, active) ==
  \/ Len(rows) = 0
  \/ ~rows[1].alertEnabled
  \/ rows[1].isLocked
  \/ ~active

\* checkUserStatus past its guards: it reads lastSavedStatus and returns; no
\* status query, no write of lastLoginStatus, no notification.
NotifyEveryCheck(current) == [write |-> FALSE, notify |-> TRUE]
CheckUserStatusBody(current) == [write |-> FALSE, notify |-> FALSE]

\* The promise checkUserStatus returns: its try/catch swallows every failure.
RejectOnFailure(threw) == IF threw THEN "rejected" ELSE "resolved"
CheckUserStatusSettle(threw) == "resolved"

\* What the handler saw, for the claims: the kind of check it was.
CheckKind(current, flag) ==
  IF current.lastLoginStatus = Undefined THEN "baseline"
  ELSE IF current.lastLoginStatus # Some(flag) THEN "flip"
  ELSE "same"

\* batch.map(processor): each handler runs to its first await; with the plugin
\* stopped it returns at once.
StartGroup(items, i, w, hs, active) ==
  [u \in Users |->
     IF u \in SeqRange(Slice(items, i, w))
       THEN (IF active THEN "pending" ELSE "resolved")
       ELSE hs[u]]

NoRun == [kind |-> "none", repeat |-> FALSE, alerts |-> 0, wrote |-> Undefined]
SkipRun == [kind |-> "skip", repeat |-> FALSE, alerts |-> 0, wrote |-> Undefined]

\* checkLoginStatus without its test of alertFeatureEnabled.
TickStartIgnoresSwitch ==
  /\ tickPc = "idle"
  /\ ticksLeft > 0
  /\ ticksLeft' = ticksLeft - 1
  /\ tickPc' = IF isPluginActive THEN "loading" ELSE "idle"
  /\ UNCHANGED <<envVars, cmd, tickItems, tickI, hState, hFailed, handled, groupsLog,
                 tickAborted, alertsSent, prevObs, lastRun>>
  /\ UNCHANGED restVars
  /\ UNCHANGED extVars

\* checkLoginStatus up to its first await.
TickStart ==
  /\ tickPc = "idle"
  /\ ticksLeft > 0
  /\ ticksLeft' = ticksLeft - 1
  /\ tickPc' = IF isPluginActive /\ alertFeatureEnabled THEN "loading" ELSE "idle"
  /\ UNCHANGED <<envVars, cmd, tickItems, tickI, hState, hFailed, handled, groupsLog,
                 tickAborted, alertsSent, prevObs, lastRun>>
  /\ UNCHANGED restVars
  /\ UNCHANGED extVars

\* The load of all bindings returns: filter, then processBatch starts group one.
TickLoad ==
  /\ tickPc = "loading"
  /\ \E threw \in BOOLEAN :
       IF threw
         THEN /\ tickPc' = "idle"
              /\ UNCHANGED <<tickItems, tickI, hState, hFailed, handled, groupsLog,
                             tickAborted>>
         ELSE LET items == InStoreOrder({u \in Users : MonitorFilter(store, u)})
                  first == Slice(items, 0, concurrency)
              IN  /\ tickItems' = items
                  /\ tickI' = 0
                  /\ tickAborted' = FALSE
                  /\ hFailed' = [u \in Users |-> FALSE]
                  /\ IF Len(items) = 0
                       THEN /\ tickPc' = "idle"
                            /\ hState' = [u \in Users |-> "idle"]
                            /\ handled' = [u \in Users |-> 0]
                            /\ groupsLog' = << >>
                       ELSE /\ tickPc' = "batch"
                            /\ hState' = StartGroup(items, 0, concurrency,
                                                    [u \in Users |-> "idle"], isPluginActive)
                            /\ handled' = [u \in Users |->
                                             IF u \in SeqRange(first) THEN 1 ELSE 0]
                            /\ groupsLog' = <<Len(first)>>
  /\ UNCHANGED <<envVars, cmd, ticksLeft, alertsSent, prevObs, lastRun>>
  /\ UNCHANGED restVars
  /\ UNCHANGED extVars

\* checkUserStatus from the return of its re-read to its end.
CheckUserStatus(u) ==
  /\ hState[u] = "pending"
  /\ \E threw \in BOOLEAN :
       /\ hState' = [hState EXCEPT ![u] = CheckUserStatusSettle(threw)]
       /\ hFailed' = [hFailed EXCEPT ![u] = threw]
       /\ IF threw \/ CheckUserStatusSkips(store[u], isPluginActive)
            THEN /\ lastRun' = [lastRun EXCEPT ![u] = SkipRun]
                 /\ UNCHANGED <<store, alertsSent, prevObs, lateActs>>
            ELSE LET current == store[u][1]
                     eff == CheckUserStatusBody(current)
                     n == IF eff.notify THEN 1 ELSE 0
                 IN  /\ store' = IF eff.write
                                   THEN DbSet(store, u,
                                          [lastLoginStatus |-> Some(remote[u])])
                                   ELSE store
                     /\ alertsSent' = [alertsSent EXCEPT ![u] = @ + n]
                     /\ lateActs' = IF eff.write \/ eff.notify THEN Late("monitor")
                                    ELSE lateActs
                     /\ prevObs' = [prevObs EXCEPT ![u] = Some(remote[u])]
                     /\ lastRun' = [lastRun EXCEPT ![u] =
                                      [kind |-> CheckKind(current, remote[u]),
                                       repeat |-> prevObs[u] = Some(remote[u]),
                                       alerts |-> n,
                                       wrote |-> IF eff.write THEN Some(remote[u])
                                                 ELSE Undefined]]
  /\ UNCHANGED <<remote, isPluginActive, alertFeatureEnabled, concurrency, cmd,
                 tickPc, tickItems, tickI, handled, groupsLog, tickAborted, ticksLeft>>
  /\ UNCHANGED newVars
  /\ UNCHANGED restVars

\* await Promise.all(...) returns: a rejection leaves processBatch and is caught
\* by checkLoginStatus; otherwise i += concurrency and the next group starts.
BatchAdvance ==
  /\ tickPc = "batch"
  /\ LET batch == SeqRange(Slice(tickItems, tickI, concurrency))
         next == tickI + concurrency
         group == Slice(tickItems, next, concurrency)
     IN  \/ /\ \E u \in batch : hState[u] = "rejected"
            /\ tickPc' = "idle"
            /\ tickAborted' = TRUE
            /\ UNCHANGED <<tickI, hState, handled, groupsLog>>
         \/ /\ \A u \in batch : hState[u] = "resolved"
            /\ tickAborted' = tickAborted
            /\ tickI' = next
            /\ IF next < Len(tickItems)
                 THEN /\ tickPc' = "batch"
                      /\ hState' = StartGroup(tickItems, next, concurrency, hState,
                                              isPluginActive)
                      /\ handled' = [u \in Users |->
                                       IF u \in SeqRange(group) THEN handled[u] + 1
                                       ELSE handled[u]]
                      /\ groupsLog' = Append(groupsLog, Len(group))
                 ELSE /\ tickPc' = "idle"
                      /\ UNCHANGED <<hState, handled, groupsLog>>
  /\ UNCHANGED <<envVars, cmd, tickItems, hFailed, ticksLeft, alertsSent, prevObs, lastRun>>
  /\ UNCHANGED restVars
  /\ UNCHANGED extVars

\* ------------------------------------------------- the one-off first check
\* The run of checkLoginStatus started by ctx.setTimeout next to the runs of
\* ctx.setInterval: its position, its filtered bindings, processBatch's index,
\* its handler promises, and whether the timeout is still to fire.
Tick2Idle(left) ==
  [pc |-> "idle", items |-> << >>, i |-> 0,
   h |-> [u \in Users |-> "idle"], left |-> left]

\* The timeout fires: checkLoginStatus up to its first await, whatever the
\* interval's run is doing.
FirstCheckStart ==
  /\ tick2.pc = "idle"
  /\ tick2.left > 0
  /\ tick2' = [tick2 EXCEPT !.left = @ - 1,
                            !.pc = IF isPluginActive /\ alertFeatureEnabled
                                     THEN "loading" ELSE "idle"]
  /\ UNCHANGED <<envVars, monVars, cmd, restVars>>
  /\ UNCHANGED <<lateActs, bindSlots, ref, notice, pureVars, swVars>>

\* Its load returns: filter, then processBatch starts group one.
FirstCheckLoad ==
  /\ tick2.pc = "loading"
  /\ \E threw \in BOOLEAN :
       IF threw
         THEN tick2' = [tick2 EXCEPT !.pc = "idle"]
         ELSE LET items == InStoreOrder({u \in Users : MonitorFilter(store, u)})
              IN  tick2' = [tick2 EXCEPT
                     !.items = items,
                     !.i = 0,
                     !.pc = IF Len(items) = 0 THEN "idle" ELSE "batch",
                     !.h = IF Len(items) = 0 THEN [u \in Users |-> "idle"]
                           ELSE StartGroup(items, 0, concurrency,
                                           [u \in Users |-> "idle"], isPluginActive)]
  /\ UNCHANGED <<envVars, monVars, cmd, restVars>>
  /\ UNCHANGED <<lateActs, bindSlots, ref, notice, pureVars, swVars>>

\* checkUserStatus of that run from the return of its re-read to its end.
FirstCheckUserStatus(u) ==
  /\ tick2.h[u] = "pending"
  /\ \E threw \in BOOLEAN :
       /\ tick2' = [tick2 EXCEPT !.h[u] = CheckUserStatusSettle(threw)]
       /\ IF threw \/ CheckUserStatusSkips(store[u], isPluginActive)
            THEN /\ lastRun' = [lastRun EXCEPT ![u] = SkipRun]
                 /\ UNCHANGED <<store, alertsSent, prevObs, lateActs>>
            ELSE LET current == store[u][1]
                     eff == CheckUserStatusBody(current)
                     n == IF eff.notify THEN 1 ELSE 0
                 IN  /\ store' = IF eff.write
                                   THEN DbSet(store, u,
                                          [lastLoginStatus |-> Some(remote[u])])
                                   ELSE store
                     /\ alertsSent' = [alertsSent EXCEPT ![u] = @ + n]
                     /\ lateActs' = IF eff.write \/ eff.notify THEN Late("monitor")
                                    ELSE lateActs
                     /\ prevObs' = [prevObs EXCEPT ![u] = Some(remote[u])]
                     /\ lastRun' = [lastRun EXCEPT ![u] =
                                      [kind |-> CheckKind(current, remote[u]),
                                       repeat |-> prevObs[u] = Some(remote[u]),
                                       alerts |-> n,
                                       wrote |-> IF eff.write THEN Some(remote[u])
                                                 ELSE Undefined]]
  /\ UNCHANGED <<remote, isPluginActive, alertFeatureEnabled, concurrency, cmd,
                 tickPc, tickItems, tickI, hState, hFailed, handled, groupsLog,
                 tickAborted, ticksLeft>>
  /\ UNCHANGED restVars
  /\ UNCHANGED <<bindSlots, ref, notice, pureVars, swVars>>

\* await Promise.all(...) of that run returns.
FirstCheckAdvance ==
  /\ tick2.pc = "batch"
  /\ LET batch == SeqRange(Slice(tick2.items, tick2.i, concurrency))
         next == tick2.i + concurrency
     IN  \/ /\ \E u \in batch : tick2.h[u] = "rejected"
            /\ tick2' = [tick2 EXCEPT !.pc = "idle"]
         \/ /\ \A u \in batch : tick2.h[u] = "resolved"
            /\ tick2' = IF next < Len(tick2.items)
                          THEN [tick2 EXCEPT
                                  !.i = next,
                                  !.h = StartGroup(tick2.items, next, concurrency,
                                                   tick2.h, isPluginActive)]
                          ELSE [tick2 EXCEPT !.i = next, !.pc = "idle"]
  /\ UNCHANGED <<envVars, monVars, cmd, restVars>>
  /\ UNCHANGED <<lateActs, bindSlots, ref, notice, pureVars, swVars>>

\* ------------------------------------------- the global broadcast switch
\* The admin command at rest; last is what its latest completed run asked
\* saveAlertFeatureEnabled to save ("none": no run yet).
SwIdle(last) == [pc |-> "idle", next |-> TRUE, todo |-> << >>, last |-> last]

\* ctx.database.set on maibot_settings by key: every matching row is replaced.
SettingsSet(rows, value) == [k \in 1..Len(rows) |-> value]

\* loadAlertFeatureEnabled, the get returns: a rejection falls back to true, a
\* row gives its boolValue, no row issues the create of the default.
LoadGet ==
  /\ loader = "get"
  /\ \E threw \in BOOLEAN :
       IF threw
         THEN alertFeatureEnabled' = TRUE /\ loader' = "done"
         ELSE IF Len(settings) > 0
           THEN alertFeatureEnabled' = settings[1] /\ loader' = "done"
           ELSE alertFeatureEnabled' = alertFeatureEnabled /\ loader' = "create"
  /\ UNCHANGED <<store, remote, isPluginActive, concurrency, settings, adminSw>>
  /\ UNCHANGED <<monVars, cmd, restVars, lateActs, bindSlots, ref, notice, pureVars, tick2>>

\* The create of the default row returns.
LoadCreate ==
  /\ loader = "create"
  /\ \E threw \in BOOLEAN :
       settings' = IF threw THEN settings ELSE Append(settings, TRUE)
  /\ alertFeatureEnabled' = TRUE
  /\ loader' = "done"
  /\ UNCHANGED <<store, remote, isPluginActive, concurrency, adminSw>>
  /\ UNCHANGED <<monVars, cmd, restVars, lateActs, bindSlots, ref, notice, pureVars, tick2>>

\* saveAlertFeatureEnabled up to its first await: the in-memory value is set.
SaveStarted(value) ==
  [pc |-> "saveGet", next |-> value, todo |-> << >>, last |-> adminSw.last]

\* mai管理员关闭登录播报 on|off up to its first await.  on goes straight into
\* saveAlertFeatureEnabled(true); off asks for confirmation first.
AdminSwStart(next) ==
  /\ adminSw.pc = "idle"
  /\ next # alertFeatureEnabled
  /\ IF next
       THEN /\ alertFeatureEnabled' = TRUE
            /\ adminSw' = SaveStarted(TRUE)
       ELSE /\ alertFeatureEnabled' = alertFeatureEnabled
            /\ adminSw' = [adminSw EXCEPT !.pc = "confirm", !.next = FALSE]
  /\ UNCHANGED <<store, remote, isPluginActive, concurrency, settings, loader>>
  /\ UNCHANGED <<monVars, cmd, restVars, lateActs, bindSlots, ref, notice, pureVars, tick2>>

\* The confirmation prompt and the "please wait" message are through: the load
\* of all bindings is issued, or the command was cancelled.
AdminSwConfirm ==
  /\ adminSw.pc = "confirm"
  /\ \E confirm \in BOOLEAN :
       adminSw' = IF confirm THEN [adminSw EXCEPT !.pc = "loadAll"]
                  ELSE SwIdle(adminSw.last)
  /\ UNCHANGED <<envVars, monVars, cmd, restVars, settings, loader>>
  /\ UNCHANGED <<lateActs, bindSlots, ref, notice, pureVars, tick2>>

\* The load of all bindings returns; the loop issues its first write, or with
\* nothing to write goes into saveAlertFeatureEnabled(false).
AdminSwLoadAll ==
  /\ adminSw.pc = "loadAll"
  /\ LET todo == InStoreOrder({u \in Users :
                    Len(store[u]) > 0 /\ store[u][1].alertEnabled = TRUE})
     IN  IF Len(todo) > 0
           THEN /\ adminSw' = [adminSw EXCEPT !.pc = "loop", !.todo = todo]
                /\ alertFeatureEnabled' = alertFeatureEnabled
           ELSE /\ adminSw' = SaveStarted(FALSE)
                /\ alertFeatureEnabled' = FALSE
  /\ UNCHANGED <<store, remote, isPluginActive, concurrency, settings, loader>>
  /\ UNCHANGED <<monVars, cmd, restVars, lateActs, bindSlots, ref, notice, pureVars, tick2>>

\* One write of the loop executes; after the last one the command goes into
\* saveAlertFeatureEnabled(false).
AdminSwSet ==
  /\ adminSw.pc = "loop"
  /\ store' = DbSet(store, Head(adminSw.todo), [alertEnabled |-> FALSE])
  /\ IF Len(adminSw.todo) > 1
       THEN /\ adminSw' = [adminSw EXCEPT !.todo = Tail(@)]
            /\ alertFeatureEnabled' = alertFeatureEnabled
       ELSE /\ adminSw' = SaveStarted(FALSE)
            /\ alertFeatureEnabled' = FALSE
  /\ UNCHANGED <<remote, isPluginActive, concurrency, settings, loader>>
  /\ UNCHANGED <<monVars, cmd, restVars, lateActs, bindSlots, ref, notice, pureVars, tick2>>

\* saveAlertFeatureEnabled, the get returns: a rejection is logged and ends the
\* save, a row issues the set, no row issues the create.
SaveGet ==
  /\ adminSw.pc = "saveGet"
  /\ \E threw \in BOOLEAN :
       adminSw' = IF threw THEN SwIdle(IF adminSw.next THEN "on" ELSE "off")
                  ELSE IF Len(settings) > 0 THEN [adminSw EXCEPT !.pc = "saveSet"]
                  ELSE [adminSw EXCEPT !.pc = "saveCreate"]
  /\ UNCHANGED <<envVars, monVars, cmd, restVars, settings, loader>>
  /\ UNCHANGED <<lateActs, bindSlots, ref, notice, pureVars, tick2>>

\* The set or the create of saveAlertFeatureEnabled returns; the command ends.
SaveWrite ==
  /\ adminSw.pc \in {"saveSet", "saveCreate"}
  /\ \E threw \in BOOLEAN :
       settings' = IF threw THEN settings
                   ELSE IF adminSw.pc = "saveSet" THEN SettingsSet(settings, adminSw.next)
                   ELSE Append(settings, adminSw.next)
  /\ adminSw' = SwIdle(IF adminSw.next THEN "on" ELSE "off")
  /\ UNCHANGED <<envVars, monVars, cmd, restVars, loader>>
  /\ UNCHANGED <<lateActs, bindSlots, ref, notice, pureVars, tick2>>

\* The plugin is started again: alertFeatureEnabled is true and
\* loadAlertFeatureEnabled is called without being awaited.
Restart ==
  /\ adminSw.pc = "idle"
  /\ loader = "done"
  /\ alertFeatureEnabled' = TRUE
  /\ loader' = "get"
  /\ UNCHANGED <<store, remote, isPluginActive, concurrency, settings, adminSw>>
  /\ UNCHANGED <<monVars, cmd, restVars, lateActs, bindSlots, ref, notice, pureVars, tick2>>

\* ------------------------------------------------------------- environment
\* The player logs in or out at the arcade.
RemoteFlip(u) ==
  /\ remote' = [remote EXCEPT ![u] = ~@]
  /\ UNCHANGED <<store, isPluginActive, alertFeatureEnabled, concurrency, monVars, cmd>>
  /\ UNCHANGED restVars
  /\ UNCHANGED extVars

\* ctx.on('dispose').
Dispose ==
  /\ isPluginActive
  /\ isPluginActive' = FALSE
  /\ UNCHANGED <<store, remote, alertFeatureEnabled, concurrency, monVars, cmd>>
  /\ UNCHANGED restVars
  /\ UNCHANGED extVars

\* --------------------------------------------------------------- commands
Idle == [kind |-> "idle"]

\* maialert on|off from the return of its read to the issue of its write.
MaialertRead(u, newState) ==
  /\ cmd = Idle
  /\ Len(store[u]) > 0
  /\ (store[u][1].alertEnabled) # newState
  /\ cmd' = [kind |-> "maialert", userId |-> u, alertEnabled |-> newState]
  /\ UNCHANGED <<envVars, monVars>>
  /\ UNCHANGED restVars
  /\ UNCHANGED extVars

\* The write of maialert executes.
MaialertWrite ==
  /\ cmd.kind = "maialert"
  /\ store' = DbSet(store, cmd.userId, [alertEnabled |-> cmd.alertEnabled])
  /\ cmd' = Idle
  /\ UNCHANGED <<remote, isPluginActive, alertFeatureEnabled, concurrency, monVars>>
  /\ UNCHANGED restVars
  /\ UNCHANGED extVars

\* ------------------------------------------- maialert from any session
\* session.guildId (with session.channelId): absent in a private session.
Guilds == {Undefined, Some(1), Some(2)}

\* a || b on optional values.
OrElse(a, b) == IF a # Undefined THEN a ELSE b

\* updateData with the status column reset as well.
updateDataResetsStatus(newState, sessionGuild, binding) ==
  [alertEnabled |-> newState, lastLoginStatus |-> Undefined,
   guildId |-> OrElse(sessionGuild, binding.guildId)]

\* updateData of maialert and of maialert set: alertEnabled, and the guild
\* (channel) of the session, else of the binding read, when there is one.
updateData(newState, sessionGuild, binding) ==
  LET guildId == OrElse(sessionGuild, binding.guildId)
  IN  IF guildId # Undefined
        THEN [alertEnabled |-> newState, guildId |-> guildId]
        ELSE [alertEnabled |-> newState]

\* maialert on|off (admin FALSE) or maialert set <userId> on|off (admin TRUE),
\* the read of the binding returns.  The self-service form with the state the
\* binding already has returns its message here; the others issue the write.
AlertRead(u, newState, sessionGuild, admin) ==
  /\ cmd = Idle
  /\ Len(store[u]) > 0
  /\ cmd' = [kind |-> "alert", userId |-> u, admin |-> admin,
             same |-> (store[u][1].alertEnabled = newState),
             data |-> updateData(newState, sessionGuild, store[u][1])]
  /\ UNCHANGED <<envVars, monVars>>
  /\ UNCHANGED restVars
  /\ UNCHANGED extVars

\* The write executes and the command replies; the self-service form that
\* found nothing to change only replies.
AlertDone ==
  /\ cmd.kind = "alert"
  /\ store' = IF ~cmd.admin /\ cmd.same THEN store
              ELSE DbSet(store, cmd.userId, cmd.data)
  /\ cmd' = Idle
  /\ UNCHANGED <<remote, isPluginActive, alertFeatureEnabled, concurrency, monVars>>
  /\ UNCHANGED restVars
  /\ UNCHANGED extVars

\* ------------------------------------------------------- bind and unbind
SlotIdle == [pc |-> "idle", userId |-> 0, last |-> "none"]

\* The row mai绑定 creates: every optional column absent.
NewBinding == Binding(FALSE, FALSE, FALSE, Undefined, 0)

\* ctx.database.create on a table declared unique: ['userId']: a second row of
\* the same userId is refused (the call rejects), the table is unchanged.
DbCreateNoUnique(st, u, row) == [st EXCEPT ![u] = Append(@, row)]
DbCreate(st, u, row) ==
  IF Len(st[u]) > 0 THEN st ELSE [st EXCEPT ![u] = Append(@, row)]

\* ctx.database.remove(table, {userId}).
DbRemove(st, u) == [st EXCEPT ![u] = << >>]

\* mai绑定 from the return of its "already bound" read: no row, so the command
\* goes on to the qr prompt and the preview.
BindRead(i, u) ==
  /\ bindSlots[i].pc = "idle"
  /\ Len(store[u]) = 0
  /\ bindSlots' = [bindSlots EXCEPT ![i] = [pc |-> "create", userId |-> u, last |-> "none"]]
  /\ UNCHANGED <<envVars, monVars, cmd, restVars, lateActs, ref, notice, pureVars, tick2, swVars>>

\* The preview settles: a failure ends the command, a success creates the row.
BindCreate(i) ==
  /\ bindSlots[i].pc = "create"
  /\ \E previewOk \in BOOLEAN :
       LET u == bindSlots[i].userId
           st == DbCreate(store, u, NewBinding)
       IN  /\ store' = IF previewOk THEN st ELSE store
           /\ bindSlots' = [bindSlots EXCEPT ![i] =
                              [pc |-> "idle", userId |-> u,
                               last |-> IF ~previewOk THEN "failed"
                                        ELSE IF st = store THEN "refused"
                                        ELSE "created"]]
  /\ UNCHANGED <<remote, isPluginActive, alertFeatureEnabled, concurrency>>
  /\ UNCHANGED <<monVars, cmd, restVars, lateActs, ref, notice, pureVars, tick2, swVars>>

\* mai解绑 from the return of its read: a row exists, the remove is issued.
UnbindRead(i, u) ==
  /\ bindSlots[i].pc = "idle"
  /\ Len(store[u]) > 0
  /\ bindSlots' = [bindSlots EXCEPT ![i] = [pc |-> "remove", userId |-> u, last |-> "none"]]
  /\ UNCHANGED <<envVars, monVars, cmd, restVars, lateActs, ref, notice, pureVars, tick2, swVars>>

\* The remove of mai解绑 executes.
UnbindRemove(i) ==
  /\ bindSlots[i].pc = "remove"
  /\ store' = DbRemove(store, bindSlots[i].userId)
  /\ bindSlots' = [bindSlots EXCEPT ![i] =
                     [pc |-> "idle", userId |-> bindSlots[i].userId, last |-> "removed"]]
  /\ UNCHANGED <<remote, isPluginActive, alertFeatureEnabled, concurrency>>
  /\ UNCHANGED <<monVars, cmd, restVars, lateActs, ref, notice, pureVars, tick2, swVars>>

\* ------------------------------------------------------------- job poller
\* const maxAttempts = 300 (scheduleB50Notification and scheduleLxB50Notification)
maxAttempts == 300

\* Answers of api.getB50TaskById / api.getLxB50TaskById: a transport failure, or
\* a detail record; err is "detail.error is neither null, undefined nor ''".
QueryOutcomes ==
  {[threw |-> TRUE, done |-> FALSE, err |-> FALSE]} \cup
  {[threw |-> FALSE, done |-> d, err |-> e] : d \in BOOLEAN, e \in BOOLEAN}

\* pollHist.last before the first answer.
NoAnswer == [threw |-> FALSE, done |-> FALSE, err |-> FALSE]

\* Dispatch counters count up to CountCap and stay there.
Bump(c) == Min(c + 1, CountCap)

\* statusText: the error text when hasError, the completion text otherwise.
TerminalKind(o) == IF o.err THEN "failed" ELSE "succeeded"

\* The branch poll takes on an answer, at the given value of attempts.
RetryPastBudget(o, att) ==
  IF o.threw THEN "retry"
  ELSE IF o.done \/ o.err THEN "terminal"
  ELSE IF att < maxAttempts THEN "retry"
  ELSE "exhaustTry"
FailOnTransportError(o, att) ==
  IF o.threw \/ o.done \/ o.err THEN "terminal"
  ELSE IF att < maxAttempts THEN "retry"
  ELSE "exhaustTry"
PollBranch(o, att) ==
  IF o.threw THEN (IF att < maxAttempts THEN "retry" ELSE "exhaustCatch")
  ELSE IF o.done \/ o.err THEN "terminal"
  ELSE IF att < maxAttempts THEN "retry"
  ELSE "exhaustTry"

\* The catch block of poll after a rejected bot.sendMessage inside the try.
SendFailureBranch(att) == IF att < maxAttempts THEN "retry" ELSE "exhaustCatch"

\* The timer fires: attempts += 1 and the status query is issued.  The timer is
\* one of ctx.setTimeout, which the context clears when it is disposed.
PollTimer ==
  /\ pollPc = "timer"
  /\ isPluginActive
  /\ attempts' = attempts + 1
  /\ pollPc' = "query"
  /\ UNCHANGED <<dispatched, pollHist>>
  /\ UNCHANGED <<envVars, monVars, cmd, maintVars, lockVars>>
  /\ UNCHANGED extVars

\* The status query settles: poll runs up to its next await or to its end.
PollQuery ==
  /\ pollPc = "query"
  /\ \E o \in QueryOutcomes :
       LET br == PollBranch(o, attempts)
           pending == ~o.threw /\ ~o.done /\ ~o.err
       IN  /\ pollHist' = [allPending |-> pollHist.allPending /\ pending,
                           doneAtLast |-> /\ pollHist.allPending
                                          /\ attempts = maxAttempts
                                          /\ ~o.threw /\ o.done /\ ~o.err,
                           last |-> o]
           /\ pollPc' = CASE br = "retry" -> "timer"
                          [] br = "terminal" -> "sendTerminal"
                          [] br = "exhaustTry" -> "sendExhaust"
                          [] OTHER -> "sendCatch"
           /\ dispatched' =
                CASE br = "retry" -> dispatched
                  [] br = "terminal" ->
                       [dispatched EXCEPT ![TerminalKind(o)] = Bump(@)]
                  [] OTHER -> [dispatched EXCEPT !["pending"] = Bump(@)]
           /\ lateActs' = IF br = "retry" THEN lateActs ELSE Late("pollSend")
  /\ UNCHANGED <<attempts, newVars>>
  /\ UNCHANGED <<envVars, monVars, cmd, maintVars, lockVars>>

\* bot.sendMessage settles.  A rejection inside the try reaches the catch block;
\* a rejection inside the catch block leaves poll as a rejected promise.
PollSend ==
  /\ pollPc \in {"sendTerminal", "sendExhaust", "sendCatch"}
  /\ \E ok \in BOOLEAN :
       IF ok
         THEN pollPc' = "stopped" /\ UNCHANGED <<dispatched, lateActs>>
         ELSE IF pollPc = "sendCatch"
           THEN pollPc' = "crashed" /\ UNCHANGED <<dispatched, lateActs>>
           ELSE LET br == SendFailureBranch(attempts)
                IN  /\ pollPc' = CASE br = "retry" -> "timer"
                                   [] br = "exhaustCatch" -> "sendCatch"
                                   [] OTHER -> "stopped"
                    /\ dispatched' = IF br = "exhaustCatch"
                                       THEN [dispatched EXCEPT !["pending"] = Bump(@)]
                                       ELSE dispatched
                    /\ lateActs' = IF br = "exhaustCatch" THEN Late("pollSend")
                                   ELSE lateActs
  /\ UNCHANGED <<attempts, pollHist, newVars>>
  /\ UNCHANGED <<envVars, monVars, cmd, maintVars, lockVars>>

\* ------------------------------------------------------ maintenance window
\* now.getHours()
Hours == 0..23

\* maintenance?.message: the empty string or a text.
MessageTexts == {"", "maintenance"}

\* config.maintenanceNotice: absent (Undefined) or one record.
MaintenanceConfigs ==
  {Undefined} \cup
  {Some([enabled |-> e, startHour |-> s, endHour |-> t, message |-> m]) :
     e \in BOOLEAN, s \in Hours, t \in Hours, m \in MessageTexts}

\* isInMaintenanceWindow(maintenance) evaluated at local hour `hour`.
WindowClosedEnd(maintenance, hour) ==
  IF maintenance = Undefined THEN FALSE
  ELSE LET start == maintenance[1].startHour
           end == maintenance[1].endHour
       IN  IF ~maintenance[1].enabled THEN FALSE
           ELSE IF start = end THEN TRUE
           ELSE IF start < end THEN hour >= start /\ hour <= end
           ELSE hour >= start \/ hour <= end
isInMaintenanceWindow(maintenance, hour) ==
  IF maintenance = Undefined THEN FALSE
  ELSE LET start == maintenance[1].startHour
           end == maintenance[1].endHour
       IN  IF ~maintenance[1].enabled THEN FALSE
           ELSE IF start = end THEN TRUE
           ELSE IF start < end THEN hour >= start /\ hour < end
           ELSE hour >= start \/ hour < end

\* getMaintenanceMessage: `maintenance?.message || null`; '' is falsy.
getMaintenanceMessage(maintenance, hour) ==
  IF ~isInMaintenanceWindow(maintenance, hour) THEN Undefined
  ELSE IF maintenance[1].message = "" THEN Undefined
  ELSE Some(maintenance[1].message)

UploadKinds == {"fish", "lx"}
UpIdle == [pc |-> "idle", kind |-> "none", reply |-> "none", gate |-> Undefined]

\* mai上传B50 / mai上传落雪b50 from the return of the binding read to the gate:
\* `ready` is "a binding with the upload credential was found".
UploadGate(kind) ==
  /\ up.pc = "idle"
  /\ \E ready \in BOOLEAN, hour \in Hours :
       IF ~ready
         THEN up' = [up EXCEPT !.pc = "done", !.kind = kind, !.reply = "notReady"]
         ELSE LET maintenanceMsg == getMaintenanceMessage(maintenanceNotice, hour)
                  seen == Some([hour |-> hour,
                                inWindow |-> isInMaintenanceWindow(maintenanceNotice, hour),
                                blocked |-> maintenanceMsg # Undefined])
              IN  IF maintenanceMsg # Undefined
                    THEN up' = [pc |-> "done", kind |-> kind,
                                reply |-> maintenanceMsg[1], gate |-> seen]
                    ELSE up' = [pc |-> "qr", kind |-> kind, reply |-> "none", gate |-> seen]
  /\ UNCHANGED <<maintenanceNotice, uploadsSubmitted, pollersSpawned>>
  /\ UNCHANGED <<envVars, monVars, cmd, pollVars, lockVars>>
  /\ UNCHANGED extVars

\* getQrText settles (a rebind included): an error ends the command, a qr text
\* issues the upload request.
UploadQr ==
  /\ up.pc = "qr"
  /\ \E ok \in BOOLEAN :
       IF ok
         THEN /\ up' = [up EXCEPT !.pc = "uploading"]
              /\ uploadsSubmitted' = Bump(uploadsSubmitted)
         ELSE /\ up' = [up EXCEPT !.pc = "done", !.reply = "qrError"]
              /\ UNCHANGED uploadsSubmitted
  /\ UNCHANGED <<maintenanceNotice, pollersSpawned>>
  /\ UNCHANGED <<envVars, monVars, cmd, pollVars, lockVars>>
  /\ UNCHANGED extVars

\* api.uploadB50 / api.uploadLxB50 settles: UploadStatus true schedules the
\* notification poller.
UploadResult ==
  /\ up.pc = "uploading"
  /\ \E res \in {"accepted", "refused", "threw"} :
       /\ up' = [up EXCEPT !.pc = "done",
                           !.reply = IF res = "accepted" THEN "submitted" ELSE res]
       /\ pollersSpawned' = IF res = "accepted" THEN Bump(pollersSpawned)
                            ELSE pollersSpawned
  /\ UNCHANGED <<maintenanceNotice, uploadsSubmitted>>
  /\ UNCHANGED <<envVars, monVars, cmd, pollVars, lockVars>>
  /\ UNCHANGED extVars

\* ---------------------------------------------------- lock and protection
LockIdle == [kind |-> "idle"]

\* The notify loop of autoLockAccount: n bots in ctx.bots, bot.sendMessage
\* called on the first `tried` of them, `sent` calls resolved, `logged` when the
\* "no bot could send" error was logged.
NoNotice == [n |-> 0, tried |-> 0, sent |-> 0, logged |-> FALSE]
NoLock == [by |-> "none", alertAfter |-> FALSE]

\* updateData of mai锁定: alertEnabled is among the fields only when the row the
\* command read before api.login had alertEnabled === true.
LockUpdate(alertWas) ==
  IF alertWas
    THEN [isLocked |-> TRUE, lockLoginId |-> 1, alertEnabled |-> FALSE]
    ELSE [isLocked |-> TRUE, lockLoginId |-> 1]

\* updateData of mai保护模式 on: protectionMode, and the lock fields when
\* LoginStatus is true.
ProtectUpdate(ok, alertWas) ==
  IF ~ok THEN [protectionMode |-> TRUE]
  ELSE IF alertWas
    THEN [protectionMode |-> TRUE, isLocked |-> TRUE, lockLoginId |-> 1,
          alertEnabled |-> FALSE]
    ELSE [protectionMode |-> TRUE, isLocked |-> TRUE, lockLoginId |-> 1]

\* autoLockAccount's write: isLocked, lockTime, lockLoginId.
AutoLockUpdate == [isLocked |-> TRUE, lockLoginId |-> 1]

Logged(st, u, by) == [by |-> by, alertAfter |-> st[u][1].alertEnabled]

\* mai锁定 from the return of its read to the issue of api.login.
LockRead(u) ==
  /\ lockCmd = LockIdle
  /\ Len(store[u]) > 0
  /\ ~store[u][1].isLocked
  /\ lockCmd' = [kind |-> "lock", userId |-> u, alertWas |-> store[u][1].alertEnabled]
  /\ UNCHANGED <<autoPc, lockLog>>
  /\ UNCHANGED <<envVars, monVars, cmd, pollVars, maintVars>>
  /\ UNCHANGED extVars

\* api.login settles for mai锁定: LoginStatus true writes the lock.
LockLogin ==
  /\ lockCmd.kind = "lock"
  /\ \E ok \in BOOLEAN :
       LET u == lockCmd.userId
           st == DbSet(store, u, LockUpdate(lockCmd.alertWas))
       IN  IF ok
             THEN /\ store' = st
                  /\ remote' = [remote EXCEPT ![u] = TRUE]
                  /\ lockLog' = IF Len(st[u]) > 0
                                  THEN [lockLog EXCEPT ![u] = Logged(st, u, "command")]
                                  ELSE lockLog
             ELSE UNCHANGED <<store, remote, lockLog>>
  /\ lockCmd' = LockIdle
  /\ UNCHANGED <<isPluginActive, alertFeatureEnabled, concurrency, autoPc>>
  /\ UNCHANGED <<monVars, cmd, pollVars, maintVars>>
  /\ UNCHANGED extVars

\* The fields mai解锁 writes after api.logout succeeded: the lock fields, and
\* not protectionMode.
UnlockClearsProtection == [isLocked |-> FALSE, lockLoginId |-> 0, protectionMode |-> FALSE]
UnlockUpdate == [isLocked |-> FALSE, lockLoginId |-> 0]

\* mai解锁 from the return of its read to the issue of api.logout.
UnlockRead(u) ==
  /\ lockCmd = LockIdle
  /\ Len(store[u]) > 0
  /\ store[u][1].isLocked
  /\ lockCmd' = [kind |-> "unlock", userId |-> u, alertWas |-> FALSE]
  /\ UNCHANGED <<autoPc, lockLog>>
  /\ UNCHANGED <<envVars, monVars, cmd, pollVars, maintVars>>
  /\ UNCHANGED extVars

\* api.logout settles for mai解锁: LogoutStatus true clears the lock fields.
UnlockLogout ==
  /\ lockCmd.kind = "unlock"
  /\ \E ok \in BOOLEAN :
       LET u == lockCmd.userId
       IN  IF ok
             THEN /\ store' = DbSet(store, u, UnlockUpdate)
                  /\ remote' = [remote EXCEPT ![u] = FALSE]
             ELSE UNCHANGED <<store, remote>>
  /\ lockCmd' = LockIdle
  /\ UNCHANGED <<isPluginActive, alertFeatureEnabled, concurrency, autoPc, lockLog>>
  /\ UNCHANGED <<monVars, cmd, pollVars, maintVars>>
  /\ UNCHANGED extVars

\* mai保护模式 on|off from the return of its read: off and on-while-locked write
\* protectionMode at once, on-while-unlocked issues api.login.
ProtectRead(u, newState) ==
  /\ lockCmd = LockIdle
  /\ Len(store[u]) > 0
  /\ store[u][1].protectionMode # newState
  /\ IF newState /\ ~store[u][1].isLocked
       THEN /\ lockCmd' = [kind |-> "protect", userId |-> u,
                           alertWas |-> store[u][1].alertEnabled]
            /\ UNCHANGED store
       ELSE /\ store' = DbSet(store, u, [protectionMode |-> newState])
            /\ UNCHANGED lockCmd
  /\ UNCHANGED <<autoPc, lockLog>>
  /\ UNCHANGED <<remote, isPluginActive, alertFeatureEnabled, concurrency>>
  /\ UNCHANGED <<monVars, cmd, pollVars, maintVars>>
  /\ UNCHANGED extVars

\* api.login settles for mai保护模式 on: protectionMode is written either way,
\* the lock fields when LoginStatus is true.
ProtectLogin ==
  /\ lockCmd.kind = "protect"
  /\ \E ok \in BOOLEAN :
       LET u == lockCmd.userId
           st == DbSet(store, u, ProtectUpdate(ok, lockCmd.alertWas))
       IN  IF ok
             THEN /\ store' = st
                  /\ remote' = [remote EXCEPT ![u] = TRUE]
                  /\ lockLog' = IF Len(st[u]) > 0
                                  THEN [lockLog EXCEPT ![u] = Logged(st, u, "protect")]
                                  ELSE lockLog
             ELSE /\ store' = st
                  /\ UNCHANGED <<remote, lockLog>>
  /\ lockCmd' = LockIdle
  /\ UNCHANGED <<isPluginActive, alertFeatureEnabled, concurrency, autoPc>>
  /\ UNCHANGED <<monVars, cmd, pollVars, maintVars>>
  /\ UNCHANGED extVars

\* updateData of mai管理员关闭所有锁定和保护 for one binding of allBindings: the
\* lock fields when the loaded binding was locked, protectionMode when it had
\* protection on.
AdminCloseUpdate(locked, prot) ==
  IF locked /\ prot
    THEN [isLocked |-> FALSE, lockLoginId |-> 0, protectionMode |-> FALSE]
  ELSE IF locked THEN [isLocked |-> FALSE, lockLoginId |-> 0]
  ELSE [protectionMode |-> FALSE]

\* The admin command loaded allBindings; u is a binding of it that needs an
\* update.
AdminCloseRead(u) ==
  /\ lockCmd = LockIdle
  /\ Len(store[u]) > 0
  /\ store[u][1].isLocked \/ store[u][1].protectionMode
  /\ lockCmd' = [kind |-> "admin", userId |-> u, alertWas |-> FALSE,
                 locked |-> store[u][1].isLocked, prot |-> store[u][1].protectionMode]
  /\ UNCHANGED <<autoPc, lockLog>>
  /\ UNCHANGED <<envVars, monVars, cmd, pollVars, maintVars>>
  /\ UNCHANGED extVars

\* The loop reaches the binding and writes its updateData.
AdminCloseWrite ==
  /\ lockCmd.kind = "admin"
  /\ store' = DbSet(store, lockCmd.userId, AdminCloseUpdate(lockCmd.locked, lockCmd.prot))
  /\ lockCmd' = LockIdle
  /\ UNCHANGED <<remote, isPluginActive, alertFeatureEnabled, concurrency>>
  /\ UNCHANGED <<autoPc, lockLog>>
  /\ UNCHANGED <<monVars, cmd, pollVars, maintVars>>
  /\ UNCHANGED extVars

\* ------------------------------------------------------- lock keepalive
\* LoginId values; 0 stands for null / absent.
LoginIds == 1..MaxLoginId

\* ret: the LoginId of the last successful answer of this run (0: none).
RefIdle == [pc |-> "idle", snap |-> 0, calls |-> 0, last |-> "none", ret |-> 0]

\* Answers of api.login inside refreshSingleLockedAccount: a rejection, or a
\* result with LoginStatus and LoginId (0: none).
RefreshOutcomes ==
  {[threw |-> TRUE, ok |-> FALSE, loginId |-> 0]} \cup
  {[threw |-> FALSE, ok |-> FALSE, loginId |-> 0]} \cup
  {[threw |-> FALSE, ok |-> TRUE, loginId |-> l] : l \in {0} \cup LoginIds}

\* The fields refreshSingleLockedAccount writes after api.login answered, given
\* the lockLoginId of the binding the tick loaded; << >> is "no write".
RefreshUnlocksOnFailure(o, snap) ==
  IF o.threw \/ ~o.ok THEN <<[isLocked |-> FALSE, lockLoginId |-> 0]>>
  ELSE IF o.loginId # 0 /\ o.loginId # snap THEN <<[lockLoginId |-> o.loginId]>>
  ELSE << >>
RefreshDropsLoginIdOnFailure(o, snap) ==
  IF o.threw \/ ~o.ok THEN <<[lockLoginId |-> 0]>>
  ELSE IF o.loginId # 0 /\ o.loginId # snap THEN <<[lockLoginId |-> o.loginId]>>
  ELSE << >>
RefreshUpdate(o, snap) ==
  IF o.threw \/ ~o.ok THEN << >>
  ELSE IF o.loginId # 0 /\ o.loginId # snap THEN <<[lockLoginId |-> o.loginId]>>
  ELSE << >>

\* refreshLockedAccounts loaded the rows with isLocked: true and hands one to
\* refreshSingleLockedAccount, which runs to its first await.
RefreshStart(u) ==
  /\ ref[u].pc = "idle"
  /\ isPluginActive
  /\ Len(store[u]) > 0
  /\ store[u][1].isLocked
  /\ ref' = [ref EXCEPT ![u] = [@ EXCEPT !.pc = "reread",
                                          !.snap = store[u][1].lockLoginId,
                                          !.calls = 0,
                                          !.ret = 0]]
  /\ UNCHANGED <<envVars, monVars, cmd, restVars, lateActs, bindSlots, notice, pureVars, tick2, swVars>>

\* The re-read returns: api.login is issued unless a guard returns.
RefreshReread(u) ==
  /\ ref[u].pc = "reread"
  /\ ref' = [ref EXCEPT ![u] =
                IF Len(store[u]) = 0 \/ ~store[u][1].isLocked \/ ~isPluginActive
                  THEN [@ EXCEPT !.pc = "idle", !.snap = 0, !.last = "skipped"]
                  ELSE [@ EXCEPT !.pc = "login", !.calls = @ + 1]]
  /\ UNCHANGED <<envVars, monVars, cmd, restVars, lateActs, bindSlots, notice, pureVars, tick2, swVars>>

\* api.login settles: a new LoginId is written, anything else is only logged.
RefreshLogin(u) ==
  /\ ref[u].pc = "login"
  /\ \E o \in RefreshOutcomes :
       LET upd == RefreshUpdate(o, ref[u].snap)
       IN  /\ store' = IF upd = << >> THEN store ELSE DbSet(store, u, upd[1])
           /\ lateActs' = IF upd = << >> THEN lateActs ELSE Late("refreshWrite")
           /\ ref' = [ref EXCEPT ![u] =
                         [@ EXCEPT !.pc = "idle", !.snap = 0,
                                   !.ret = IF o.ok THEN o.loginId ELSE 0,
                                   !.last = IF o.threw THEN "threw"
                                            ELSE IF ~o.ok THEN "failed"
                                            ELSE IF upd = << >> THEN "kept"
                                            ELSE "wrote"]]
  /\ UNCHANGED <<remote, isPluginActive, alertFeatureEnabled, concurrency>>
  /\ UNCHANGED <<monVars, cmd, restVars, bindSlots, notice, pureVars, tick2, swVars>>

\* checkProtectionMode's filter: protectionMode === true and isLocked !== true.
ProtectionFilter(st, u) ==
  /\ Len(st[u]) > 0
  /\ st[u][1].protectionMode = TRUE
  /\ st[u][1].isLocked # TRUE

\* autoLockAccount's two re-reads: the reasons to return.
SkipsIgnoreLocked(rows, active) ==
  \/ Len(rows) = 0
  \/ ~rows[1].protectionMode
  \/ ~active
AutoLockSkips(rows, active) ==
  \/ Len(rows) = 0
  \/ ~rows[1].protectionMode
  \/ rows[1].isLocked
  \/ ~active

\* checkProtectionMode hands a filtered binding to autoLockAccount, which runs
\* to its first await.
AutoLockStart(u) ==
  /\ autoPc[u] \in {"idle", "skipped"}
  /\ isPluginActive
  /\ ProtectionFilter(store, u)
  /\ autoPc' = [autoPc EXCEPT ![u] = "reread"]
  /\ UNCHANGED <<lockCmd, lockLog>>
  /\ UNCHANGED <<envVars, monVars, cmd, pollVars, maintVars>>
  /\ UNCHANGED extVars

\* The first re-read returns: the status query is issued unless a guard returns.
AutoLockReread(u) ==
  /\ autoPc[u] = "reread"
  /\ autoPc' = [autoPc EXCEPT ![u] =
                  IF AutoLockSkips(store[u], isPluginActive) THEN "idle" ELSE "status"]
  /\ UNCHANGED <<lockCmd, lockLog>>
  /\ UNCHANGED <<envVars, monVars, cmd, pollVars, maintVars>>
  /\ UNCHANGED extVars

\* The status query returns currentLoginStatus: online ends the handler,
\* offline issues the second re-read.
AutoLockStatus(u) ==
  /\ autoPc[u] = "status"
  /\ autoPc' = [autoPc EXCEPT ![u] = IF remote[u] THEN "idle" ELSE "verify"]
  /\ UNCHANGED <<lockCmd, lockLog>>
  /\ UNCHANGED <<envVars, monVars, cmd, pollVars, maintVars>>
  /\ UNCHANGED extVars

\* The second re-read returns: api.login is issued unless a guard returns
\* ("skipped": the run ended at this guard).
AutoLockVerify(u) ==
  /\ autoPc[u] = "verify"
  /\ autoPc' = [autoPc EXCEPT ![u] =
                  IF AutoLockSkips(store[u], isPluginActive) THEN "skipped" ELSE "login"]
  /\ UNCHANGED <<lockCmd, lockLog>>
  /\ UNCHANGED <<envVars, monVars, cmd, pollVars, maintVars>>
  /\ UNCHANGED extVars

\* api.login settles for autoLockAccount: LoginStatus true writes the lock and
\* issues the read of finalBinding; false or a rejection is only logged.
AutoLockLogin(u) ==
  /\ autoPc[u] = "login"
  /\ \E ok \in BOOLEAN :
       LET st == DbSet(store, u, AutoLockUpdate)
       IN  IF ok
             THEN /\ store' = st
                  /\ remote' = [remote EXCEPT ![u] = TRUE]
                  /\ lockLog' = IF Len(st[u]) > 0
                                  THEN [lockLog EXCEPT ![u] = Logged(st, u, "auto")]
                                  ELSE lockLog
                  /\ autoPc' = [autoPc EXCEPT ![u] = "final"]
                  /\ notice' = [notice EXCEPT ![u] = NoNotice]
             ELSE /\ UNCHANGED <<store, remote, lockLog, notice>>
                  /\ autoPc' = [autoPc EXCEPT ![u] = "idle"]
  /\ UNCHANGED <<isPluginActive, alertFeatureEnabled, concurrency, lockCmd>>
  /\ UNCHANGED <<monVars, cmd, pollVars, maintVars>>
  /\ UNCHANGED <<lateActs, bindSlots, ref, pureVars, tick2, swVars>>

\* The last send of the loop failed, or ctx.bots was empty.
NotifyGivesUp(nt) == [nt EXCEPT !.logged = TRUE]

\* bot.sendMessage settled on bot number nt.tried: the loop breaks on a
\* resolved call, goes on to the next bot on a rejected one, and logs when the
\* bots are used up.
NotifyStep(nt, ok) ==
  IF ok THEN [nt EXCEPT !.sent = @ + 1]
  ELSE IF nt.tried < nt.n THEN [nt EXCEPT !.tried = @ + 1]
  ELSE NotifyGivesUp(nt)

\* The loop is still inside bot.sendMessage after the step.
NotifySending(nt) == nt.sent = 0 /\ ~nt.logged

\* finalBinding is read: with a row that has guildId (and channelId) the loop
\* over ctx.bots starts and calls bot.sendMessage on the first bot.
AutoLockFinal(u) ==
  /\ autoPc[u] = "final"
  /\ \E n \in 0..MaxBots :
       IF Len(store[u]) = 0 \/ store[u][1].guildId = Undefined
         THEN /\ autoPc' = [autoPc EXCEPT ![u] = "idle"]
              /\ UNCHANGED notice
         ELSE LET nt == IF n = 0 THEN NotifyGivesUp(NoNotice)
                        ELSE [NoNotice EXCEPT !.n = n, !.tried = 1]
              IN  /\ notice' = [notice EXCEPT ![u] = nt]
                  /\ autoPc' = [autoPc EXCEPT ![u] =
                                  IF NotifySending(nt) THEN "bot" ELSE "idle"]
  /\ UNCHANGED <<lockCmd, lockLog>>
  /\ UNCHANGED <<envVars, monVars, cmd, pollVars, maintVars>>
  /\ UNCHANGED <<lateActs, bindSlots, ref, pureVars, tick2, swVars>>

\* bot.sendMessage of the loop settles.
AutoLockBot(u) ==
  /\ autoPc[u] = "bot"
  /\ \E ok \in BOOLEAN :
       LET nt == NotifyStep(notice[u], ok)
       IN  /\ notice' = [notice EXCEPT ![u] = nt]
           /\ autoPc' = [autoPc EXCEPT ![u] =
                           IF NotifySending(nt) THEN "bot" ELSE "idle"]
  /\ UNCHANGED <<lockCmd, lockLog>>
  /\ UNCHANGED <<envVars, monVars, cmd, pollVars, maintVars>>
  /\ UNCHANGED <<lateActs, bindSlots, ref, pureVars, tick2, swVars>>

\* ------------------------------------------------------------ specifications
\* The parts of the state a specification leaves alone.
PollQuiet ==
  /\ pollPc = "stopped"
  /\ attempts = 0
  /\ dispatched = [k \in {"succeeded", "failed", "pending"} |-> 0]
  /\ pollHist = [allPending |-> TRUE, doneAtLast |-> FALSE, last |-> NoAnswer]

MaintQuiet ==
  /\ maintenanceNotice = Undefined
  /\ up = UpIdle
  /\ uploadsSubmitted = 0
  /\ pollersSpawned = 0

LockQuiet ==
  /\ lockCmd = LockIdle
  /\ autoPc = [u \in Users |-> "idle"]
  /\ lockLog = [u \in Users |-> NoLock]

StoreQuiet ==
  /\ concurrency = DefaultConcurrency
  /\ ticksLeft = 0
  /\ remote = [u \in Users |-> FALSE]
  /\ store = [u \in Users |-> << >>]

\* ------------------------------------------------------ parseLoginStatus
\* Longest IsLogin string handed to parseLoginStatus.
MaxStrLen == 4

\* The characters of IsLogin strings: the letters of "true", "yes" and "1",
\* two upper-case letters and the blank.
Chars == {" ", "t", "T", "r", "u", "e", "E", "y", "s", "1"}

Strings == UNION {[1..n -> Chars] : n \in 0..MaxStrLen}

\* The values of IsLogin by typeof: undefined, null, a boolean, a number (NaN
\* apart), a string.
IsLoginInputs ==
  {[t |-> "undefined"], [t |-> "null"], [t |-> "NaN"]}
    \cup {[t |-> "boolean", b |-> b] : b \in BOOLEAN}
    \cup {[t |-> "number", n |-> n] : n \in -1..1}
    \cup {[t |-> "string", s |-> str] : str \in Strings}

\* String.prototype.toLowerCase on Chars.
ToLowerCase(str) ==
  [k \in 1..Len(str) |-> IF str[k] = "T" THEN "t"
                         ELSE IF str[k] = "E" THEN "e"
                         ELSE str[k]]

RECURSIVE TrimStart(_)
TrimStart(str) ==
  IF Len(str) > 0 /\ Head(str) = " " THEN TrimStart(Tail(str)) ELSE str

RECURSIVE TrimEnd(_)
TrimEnd(str) ==
  IF Len(str) > 0 /\ str[Len(str)] = " "
    THEN TrimEnd(SubSeq(str, 1, Len(str) - 1))
    ELSE str

\* String.prototype.trim.
Trim(str) == TrimEnd(TrimStart(str))

LoginWords == {<<"t", "r", "u", "e">>, <<"1">>, <<"y", "e", "s">>}

\* parseLoginStatus without the trim of the string.
ParseWithoutTrim(x) ==
  IF x.t \in {"undefined", "null"} THEN FALSE
  ELSE IF x.t = "boolean" THEN x.b
  ELSE IF x.t = "NaN" THEN TRUE
  ELSE IF x.t = "number" THEN x.n # 0
  ELSE IF x.t = "string" THEN ToLowerCase(x.s) \in LoginWords
  ELSE FALSE

parseLoginStatus(x) ==
  IF x.t \in {"undefined", "null"} THEN FALSE
  ELSE IF x.t = "boolean" THEN x.b
  ELSE IF x.t = "NaN" THEN TRUE
  ELSE IF x.t = "number" THEN x.n # 0
  ELSE IF x.t = "string" THEN Trim(ToLowerCase(x.s)) \in LoginWords
  ELSE FALSE

\* A caller hands IsLogin to parseLoginStatus and takes the result.
ParseLoginStatusCall ==
  /\ parsed = Undefined
  /\ parsed' = Some(parseLoginStatus(isLogin))
  /\ UNCHANGED <<envVars, monVars, cmd, restVars>>
  /\ UNCHANGED <<lateActs, bindSlots, ref, notice, isLogin, tick2, swVars>>

\* No parseLoginStatus call is followed.
PureQuiet ==
  /\ isLogin = [t |-> "undefined"]
  /\ parsed = Undefined

MonInitRest ==
  /\ lateActs = {}
  /\ bindSlots = [i \in Binders |-> SlotIdle]
  /\ ref = [u \in Users |-> RefIdle]
  /\ notice = [u \in Users |-> NoNotice]
  /\ isPluginActive = TRUE
  /\ alertFeatureEnabled = TRUE
  /\ tickPc = "idle"
  /\ tickItems = << >>
  /\ tickI = 0
  /\ hState = [u \in Users |-> "idle"]
  /\ hFailed = [u \in Users |-> FALSE]
  /\ handled = [u \in Users |-> 0]
  /\ groupsLog = << >>
  /\ tickAborted = FALSE
  /\ alertsSent = [u \in Users |-> 0]
  /\ prevObs = [u \in Users |-> Undefined]
  /\ lastRun = [u \in Users |-> NoRun]
  /\ cmd = Idle

\* The one-off first check has run before the behaviour starts.
FirstCheckQuiet == tick2 = Tick2Idle(0)

\* The switch has been loaded as on and no admin command is in flight.
SwitchQuiet ==
  /\ settings = <<TRUE>>
  /\ loader = "done"
  /\ adminSw = SwIdle("none")

MonInitCommon == MonInitRest /\ PureQuiet /\ FirstCheckQuiet /\ SwitchQuiet

\* The monitor against the commands: rows written by any earlier run of the plugin.
Init ==
  /\ MonInitCommon
  /\ PollQuiet
  /\ MaintQuiet
  /\ LockQuiet
  /\ ticksLeft = MaxTicks
  /\ concurrency = DefaultConcurrency
  /\ \E r \in [MonUsers -> BOOLEAN] :
       remote = [u \in Users |-> IF u \in MonUsers THEN r[u] ELSE FALSE]
  /\ \E b \in [MonUsers -> {Binding(a, l, FALSE, s, 0) :
                               a \in BOOLEAN, l \in BOOLEAN, s \in OptBool}] :
       store = [u \in Users |-> IF u \in MonUsers THEN <<b[u]>> ELSE << >>]

Next ==
  \/ TickStart
  \/ TickLoad
  \/ \E u \in Users : CheckUserStatus(u)
  \/ BatchAdvance
  \/ \E u \in MonUsers : RemoteFlip(u)
  \/ \E u \in MonUsers, s \in BOOLEAN : MaialertRead(u, s)
  \/ MaialertWrite

Spec == Init /\ [][Next]_vars

\* The batch scheduler under the monitor tick: every row bound, any subset enabled.
InitBatch ==
  /\ MonInitCommon
  /\ PollQuiet
  /\ MaintQuiet
  /\ LockQuiet
  /\ ticksLeft = 1
  /\ concurrency \in 1..MaxWidth
  /\ remote = [u \in Users |-> FALSE]
  /\ \E n \in 0..MaxUsers, skip \in 0..MaxUsers :
       store = [u \in Users |->
                  <<Binding(u <= n /\ u # skip, FALSE, FALSE, Undefined, 0)>>]

NextBatch ==
  \/ TickStart
  \/ TickLoad
  \/ \E u \in Users : CheckUserStatus(u)
  \/ BatchAdvance
  \/ Dispose

SpecBatch == InitBatch /\ [][NextBatch]_vars

\* One job poller, scheduled by an accepted upload.
InitPoll ==
  /\ MonInitCommon
  /\ StoreQuiet
  /\ MaintQuiet
  /\ LockQuiet
  /\ pollPc = "timer"
  /\ attempts = 0
  /\ dispatched = [k \in {"succeeded", "failed", "pending"} |-> 0]
  /\ pollHist = [allPending |-> TRUE, doneAtLast |-> FALSE, last |-> NoAnswer]

NextPoll ==
  \/ PollTimer
  \/ PollQuery
  \/ PollSend
  \/ Dispose

SpecPoll == InitPoll /\ [][NextPoll]_vars

\* The poller when every armed timer fires (unless dispose cleared it) and
\* every awaited status query and bot.sendMessage settles.
SpecPollFair ==
  /\ SpecPoll
  /\ WF_vars(PollTimer)
  /\ WF_vars(PollQuery)
  /\ WF_vars(PollSend)

\* One upload command under every maintenance configuration.
InitMaint ==
  /\ MonInitCommon
  /\ StoreQuiet
  /\ PollQuiet
  /\ LockQuiet
  /\ maintenanceNotice \in MaintenanceConfigs
  /\ up = UpIdle
  /\ uploadsSubmitted = 0
  /\ pollersSpawned = 0

NextMaint ==
  \/ \E kind \in UploadKinds : UploadGate(kind)
  \/ UploadQr
  \/ UploadResult

SpecMaint == InitMaint /\ [][NextMaint]_vars

\* The lock, unlock and protection operations against maialert.
InitLock ==
  /\ MonInitCommon
  /\ PollQuiet
  /\ MaintQuiet
  /\ LockQuiet
  /\ concurrency = DefaultConcurrency
  /\ ticksLeft = 0
  /\ remote = [u \in Users |-> FALSE]
  /\ \E b \in [MonUsers -> {Binding(a, FALSE, FALSE, Undefined, 0) : a \in BOOLEAN}] :
       store = [u \in Users |-> IF u \in MonUsers THEN <<b[u]>> ELSE << >>]

NextLock ==
  \/ \E u \in MonUsers : LockRead(u)
  \/ LockLogin
  \/ \E u \in MonUsers : UnlockRead(u)
  \/ UnlockLogout
  \/ \E u \in MonUsers, s \in BOOLEAN : ProtectRead(u, s)
  \/ ProtectLogin
  \/ \E u \in MonUsers : AdminCloseRead(u)
  \/ AdminCloseWrite
  \/ \E u \in MonUsers : AutoLockStart(u)
  \/ \E u \in MonUsers : AutoLockReread(u)
  \/ \E u \in MonUsers : AutoLockStatus(u)
  \/ \E u \in MonUsers : AutoLockVerify(u)
  \/ \E u \in MonUsers : AutoLockLogin(u)
  \/ \E u \in MonUsers : AutoLockFinal(u)
  \/ \E u \in MonUsers : RefreshStart(u)
  \/ \E u \in MonUsers : RefreshReread(u)
  \/ \E u \in MonUsers : RefreshLogin(u)
  \/ \E u \in MonUsers : RemoteFlip(u)
  \/ \E u \in MonUsers, s \in BOOLEAN : MaialertRead(u, s)
  \/ MaialertWrite

SpecLock == InitLock /\ [][NextLock]_vars

\* The keepalive on bindings that mai锁定 has locked, next to mai解锁, mai锁定
\* and dispose.
InitKeep ==
  /\ MonInitCommon
  /\ PollQuiet
  /\ MaintQuiet
  /\ LockQuiet
  /\ concurrency = DefaultConcurrency
  /\ ticksLeft = 0
  /\ remote = [u \in Users |-> u \in MonUsers]
  /\ store = [u \in Users |->
                IF u \in MonUsers THEN <<Binding(FALSE, TRUE, FALSE, Undefined, 1)>>
                ELSE << >>]

NextKeep ==
  \/ \E u \in MonUsers : RefreshStart(u)
  \/ \E u \in MonUsers : RefreshReread(u)
  \/ \E u \in MonUsers : RefreshLogin(u)
  \/ \E u \in MonUsers : UnlockRead(u)
  \/ UnlockLogout
  \/ \E u \in MonUsers : LockRead(u)
  \/ LockLogin
  \/ Dispose

SpecKeep == InitKeep /\ [][NextKeep]_vars

\* autoLockAccount with its lock notice on a binding that has protection on and
\* a guild, and a job poller on its last attempt.
InitNotify ==
  /\ MonInitCommon
  /\ MaintQuiet
  /\ LockQuiet
  /\ concurrency = DefaultConcurrency
  /\ ticksLeft = 0
  /\ remote = [u \in Users |-> FALSE]
  /\ \E b \in [MonUsers -> {InGuild(Binding(a, FALSE, TRUE, Undefined, 0)) : a \in BOOLEAN}] :
       store = [u \in Users |-> IF u \in MonUsers THEN <<b[u]>> ELSE << >>]
  /\ pollPc = "timer"
  /\ attempts = maxAttempts - 1
  /\ dispatched = [k \in {"succeeded", "failed", "pending"} |-> 0]
  /\ pollHist = [allPending |-> TRUE, doneAtLast |-> FALSE, last |-> NoAnswer]

NextNotify ==
  \/ \E u \in MonUsers : AutoLockStart(u)
  \/ \E u \in MonUsers : AutoLockReread(u)
  \/ \E u \in MonUsers : AutoLockStatus(u)
  \/ \E u \in MonUsers : AutoLockVerify(u)
  \/ \E u \in MonUsers : AutoLockLogin(u)
  \/ \E u \in MonUsers : AutoLockFinal(u)
  \/ \E u \in MonUsers : AutoLockBot(u)
  \/ \E u \in MonUsers : UnlockRead(u)
  \/ UnlockLogout
  \/ \E u \in MonUsers : RemoteFlip(u)
  \/ PollTimer
  \/ PollQuery
  \/ PollSend

SpecNotify == InitNotify /\ [][NextNotify]_vars

\* The interval's runs of checkLoginStatus and the one-off first check, free
\* to overlap, on bindings whose remote flag differs from the stored
\* lastLoginStatus or that have none stored.
InitOverlap ==
  /\ MonInitRest
  /\ PureQuiet
  /\ PollQuiet
  /\ MaintQuiet
  /\ LockQuiet
  /\ concurrency = DefaultConcurrency
  /\ ticksLeft = MaxTicks
  /\ tick2 = Tick2Idle(1)
  /\ SwitchQuiet
  /\ \E r \in [MonUsers -> BOOLEAN], known \in [MonUsers -> BOOLEAN] :
       /\ remote = [u \in Users |-> IF u \in MonUsers THEN r[u] ELSE FALSE]
       /\ store = [u \in Users |->
                     IF u \in MonUsers
                       THEN <<Binding(TRUE, FALSE, FALSE,
                                      IF known[u] THEN Some(~r[u]) ELSE Undefined, 0)>>
                       ELSE << >>]

NextOverlap ==
  \/ TickStart
  \/ TickLoad
  \/ \E u \in MonUsers : CheckUserStatus(u)
  \/ BatchAdvance
  \/ FirstCheckStart
  \/ FirstCheckLoad
  \/ \E u \in MonUsers : FirstCheckUserStatus(u)
  \/ FirstCheckAdvance
  \/ \E u \in MonUsers, s \in BOOLEAN : MaialertRead(u, s)
  \/ MaialertWrite

SpecOverlap == InitOverlap /\ [][NextOverlap]_vars

\* The admin switch command against maialert and the monitor ticks.
InitSwitch ==
  /\ MonInitCommon
  /\ PollQuiet
  /\ MaintQuiet
  /\ LockQuiet
  /\ concurrency = DefaultConcurrency
  /\ ticksLeft = MaxTicks
  /\ remote = [u \in Users |-> FALSE]
  /\ \E b \in [MonUsers -> {Binding(a, FALSE, FALSE, Undefined, 0) : a \in BOOLEAN}] :
       store = [u \in Users |-> IF u \in MonUsers THEN <<b[u]>> ELSE << >>]

NextSwitch ==
  \/ \E next \in BOOLEAN : AdminSwStart(next)
  \/ AdminSwConfirm
  \/ AdminSwLoadAll
  \/ AdminSwSet
  \/ SaveGet
  \/ SaveWrite
  \/ \E u \in MonUsers, s \in BOOLEAN : MaialertRead(u, s)
  \/ MaialertWrite
  \/ TickStart
  \/ TickLoad
  \/ \E u \in MonUsers : CheckUserStatus(u)
  \/ BatchAdvance

SpecSwitch == InitSwitch /\ [][NextSwitch]_vars

\* The plugin has just been started: alertFeatureEnabled is true, the load of
\* the switch is in flight, and maibot_settings holds what an earlier run left
\* (nothing on a first start).
InitRestart ==
  /\ MonInitRest
  /\ PureQuiet
  /\ FirstCheckQuiet
  /\ PollQuiet
  /\ MaintQuiet
  /\ LockQuiet
  /\ settings \in {<< >>, <<TRUE>>, <<FALSE>>}
  /\ loader = "get"
  /\ adminSw = SwIdle("none")
  /\ concurrency = DefaultConcurrency
  /\ ticksLeft = 0
  /\ remote = [u \in Users |-> FALSE]
  /\ \E b \in [MonUsers -> {Binding(a, FALSE, FALSE, Undefined, 0) : a \in BOOLEAN}] :
       store = [u \in Users |-> IF u \in MonUsers THEN <<b[u]>> ELSE << >>]

NextRestart ==
  \/ LoadGet
  \/ LoadCreate
  \/ \E next \in BOOLEAN : AdminSwStart(next)
  \/ AdminSwConfirm
  \/ AdminSwLoadAll
  \/ AdminSwSet
  \/ SaveGet
  \/ SaveWrite
  \/ Restart
  \/ \E u \in MonUsers, s \in BOOLEAN : MaialertRead(u, s)
  \/ MaialertWrite

SpecRestart == InitRestart /\ [][NextRestart]_vars

\* parseLoginStatus on every IsLogin value of IsLoginInputs.
InitParse ==
  /\ MonInitRest
  /\ PollQuiet
  /\ MaintQuiet
  /\ LockQuiet
  /\ StoreQuiet
  /\ FirstCheckQuiet
  /\ SwitchQuiet
  /\ isLogin \in IsLoginInputs
  /\ parsed = Undefined

NextParse == ParseLoginStatusCall

SpecParse == InitParse /\ [][NextParse]_vars

\* autoLockAccount on bindings that stay protected and offline, with or
\* without a guild, next to the keepalive of locked accounts; no command locks
\* or unlocks.
InitRelock ==
  /\ MonInitCommon
  /\ PollQuiet
  /\ MaintQuiet
  /\ LockQuiet
  /\ concurrency = DefaultConcurrency
  /\ ticksLeft = 0
  /\ remote = [u \in Users |-> FALSE]
  /\ \E b \in [MonUsers -> {Binding(FALSE, FALSE, TRUE, Undefined, 0),
                             InGuild(Binding(FALSE, FALSE, TRUE, Undefined, 0))}] :
       store = [u \in Users |-> IF u \in MonUsers THEN <<b[u]>> ELSE << >>]

\* api.login of autoLockAccount answers LoginStatus true.
AutoLockLoginOk(u) == AutoLockLogin(u) /\ autoPc'[u] = "final"

NextRelock ==
  \/ \E u \in MonUsers : AutoLockStart(u)
  \/ \E u \in MonUsers : AutoLockReread(u)
  \/ \E u \in MonUsers : AutoLockStatus(u)
  \/ \E u \in MonUsers : AutoLockVerify(u)
  \/ \E u \in MonUsers : AutoLockLogin(u)
  \/ \E u \in MonUsers : AutoLockFinal(u)
  \/ \E u \in MonUsers : AutoLockBot(u)
  \/ \E u \in MonUsers : RefreshStart(u)
  \/ \E u \in MonUsers : RefreshReread(u)
  \/ \E u \in MonUsers : RefreshLogin(u)

\* Every tick of checkProtectionMode comes, every await of autoLockAccount
\* settles, and api.login does not fail forever.
SpecRelockFair ==
  /\ InitRelock
  /\ [][NextRelock]_vars
  /\ \A u \in MonUsers :
       /\ WF_vars(AutoLockStart(u))
       /\ WF_vars(AutoLockReread(u))
       /\ WF_vars(AutoLockStatus(u))
       /\ WF_vars(AutoLockVerify(u))
       /\ WF_vars(AutoLockLogin(u))
       /\ SF_vars(AutoLockLoginOk(u))
       /\ WF_vars(AutoLockFinal(u))
       /\ WF_vars(AutoLockBot(u))

\* Every operation that writes a row's lock fields, the keepalive and one tick
\* of the status monitor.
InitLockMon ==
  /\ MonInitCommon
  /\ PollQuiet
  /\ MaintQuiet
  /\ LockQuiet
  /\ concurrency = DefaultConcurrency
  /\ ticksLeft = 1
  /\ remote = [u \in Users |-> FALSE]
  /\ \E b \in [MonUsers -> {Binding(a, FALSE, FALSE, Undefined, 0) : a \in BOOLEAN}] :
       store = [u \in Users |-> IF u \in MonUsers THEN <<b[u]>> ELSE << >>]

NextLockMon ==
  \/ \E u \in MonUsers : LockRead(u)
  \/ LockLogin
  \/ \E u \in MonUsers : UnlockRead(u)
  \/ UnlockLogout
  \/ \E u \in MonUsers, s \in BOOLEAN : ProtectRead(u, s)
  \/ ProtectLogin
  \/ \E u \in MonUsers : AdminCloseRead(u)
  \/ AdminCloseWrite
  \/ \E u \in MonUsers : AutoLockStart(u)
  \/ \E u \in MonUsers : AutoLockReread(u)
  \/ \E u \in MonUsers : AutoLockStatus(u)
  \/ \E u \in MonUsers : AutoLockVerify(u)
  \/ \E u \in MonUsers : AutoLockLogin(u)
  \/ \E u \in MonUsers : AutoLockFinal(u)
  \/ \E u \in MonUsers : RefreshStart(u)
  \/ \E u \in MonUsers : RefreshReread(u)
  \/ \E u \in MonUsers : RefreshLogin(u)
  \/ TickStart
  \/ TickLoad
  \/ \E u \in MonUsers : CheckUserStatus(u)
  \/ BatchAdvance

SpecLockMon == InitLockMon /\ [][NextLockMon]_vars

\* Bind and unbind commands against maialert and one monitor tick, from an
\* empty table.
InitBind ==
  /\ MonInitCommon
  /\ PollQuiet
  /\ MaintQuiet
  /\ LockQuiet
  /\ concurrency = DefaultConcurrency
  /\ ticksLeft = 1
  /\ remote = [u \in Users |-> FALSE]
  /\ store = [u \in Users |-> << >>]

NextBind ==
  \/ \E i \in Binders, u \in MonUsers : BindRead(i, u)
  \/ \E i \in Binders : BindCreate(i)
  \/ \E i \in Binders, u \in MonUsers : UnbindRead(i, u)
  \/ \E i \in Binders : UnbindRemove(i)
  \/ \E u \in MonUsers, s \in BOOLEAN : MaialertRead(u, s)
  \/ MaialertWrite
  \/ TickStart
  \/ TickLoad
  \/ \E u \in Users : CheckUserStatus(u)
  \/ BatchAdvance

SpecBind == InitBind /\ [][NextBind]_vars

\* mai解绑 and mai绑定 against the three scanners in flight: bindings that are
\* locked (keepalive) or protected and offline (autoLockAccount), all with
\* alertEnabled (monitor).
InitUnbind ==
  /\ MonInitCommon
  /\ PollQuiet
  /\ MaintQuiet
  /\ LockQuiet
  /\ concurrency = DefaultConcurrency
  /\ ticksLeft = 1
  /\ remote = [u \in Users |-> FALSE]
  /\ \E b \in [MonUsers -> {Binding(TRUE, TRUE, FALSE, Undefined, 1),
                             Binding(TRUE, FALSE, TRUE, Undefined, 0)}] :
       store = [u \in Users |-> IF u \in MonUsers THEN <<b[u]>> ELSE << >>]

\* One mai绑定 / mai解绑 command at a time.
OneBinder == {i \in Binders : \A j \in Binders : i <= j}

NextUnbind ==
  \/ \E i \in OneBinder, u \in MonUsers : BindRead(i, u)
  \/ \E i \in OneBinder : BindCreate(i)
  \/ \E i \in OneBinder, u \in MonUsers : UnbindRead(i, u)
  \/ \E i \in OneBinder : UnbindRemove(i)
  \/ \E u \in MonUsers : RefreshStart(u)
  \/ \E u \in MonUsers : RefreshReread(u)
  \/ \E u \in MonUsers : RefreshLogin(u)
  \/ \E u \in MonUsers : AutoLockStart(u)
  \/ \E u \in MonUsers : AutoLockReread(u)
  \/ \E u \in MonUsers : AutoLockStatus(u)
  \/ \E u \in MonUsers : AutoLockVerify(u)
  \/ \E u \in MonUsers : AutoLockLogin(u)
  \/ \E u \in MonUsers : AutoLockFinal(u)
  \/ TickStart
  \/ TickLoad
  \/ \E u \in MonUsers : CheckUserStatus(u)
  \/ BatchAdvance

SpecUnbind == InitUnbind /\ [][NextUnbind]_vars

\* The users with a binding when maialert is used, and the rows they start
\* with: fresh, monitored, locked under protection, monitored from a guild.
AlertUsers == {u \in Users : u <= MaxMonUsers + 1}

AlertRows ==
  {Binding(FALSE, FALSE, FALSE, Undefined, 0),
   Binding(TRUE, FALSE, TRUE, Some(TRUE), 0),
   Binding(FALSE, TRUE, TRUE, Some(FALSE), 1),
   InGuild(Binding(TRUE, FALSE, FALSE, Some(FALSE), 0))}

InitAlert ==
  /\ MonInitCommon
  /\ PollQuiet
  /\ MaintQuiet
  /\ LockQuiet
  /\ concurrency = DefaultConcurrency
  /\ ticksLeft = 0
  /\ remote = [u \in Users |-> FALSE]
  /\ \E b \in [AlertUsers -> AlertRows] :
       store = [u \in Users |-> IF u \in AlertUsers THEN <<b[u]>> ELSE << >>]

NextAlert ==
  \/ \E u \in AlertUsers, s \in BOOLEAN, g \in Guilds, admin \in BOOLEAN :
       AlertRead(u, s, g, admin)
  \/ AlertDone
  \/ \E i \in OneBinder, u \in AlertUsers : UnbindRead(i, u)
  \/ \E i \in OneBinder : UnbindRemove(i)

SpecAlert == InitAlert /\ [][NextAlert]_vars

\* autoLockAccount against the commands that change what its re-reads look at.
NextRelockGuard ==
  \/ \E u \in MonUsers : LockRead(u)
  \/ LockLogin
  \/ \E u \in MonUsers : UnlockRead(u)
  \/ UnlockLogout
  \/ \E u \in MonUsers, s \in BOOLEAN : ProtectRead(u, s)
  \/ ProtectLogin
  \/ \E u \in MonUsers : AdminCloseRead(u)
  \/ AdminCloseWrite
  \/ \E u \in MonUsers : AutoLockStart(u)
  \/ \E u \in MonUsers : AutoLockReread(u)
  \/ \E u \in MonUsers : AutoLockStatus(u)
  \/ \E u \in MonUsers : AutoLockVerify(u)
  \/ \E u \in MonUsers : AutoLockLogin(u)
  \/ \E u \in MonUsers : AutoLockFinal(u)
  \/ \E u \in MonUsers : RemoteFlip(u)

SpecRelockGuard == InitLock /\ [][NextRelockGuard]_vars

\* One monitor tick against mai保护模式 and autoLockAccount, which locks a
\* binding and leaves its alertEnabled as it is.
NextTickLock ==
  \/ \E u \in MonUsers, s \in BOOLEAN : ProtectRead(u, s)
  \/ ProtectLogin
  \/ \E u \in MonUsers : AutoLockStart(u)
  \/ \E u \in MonUsers : AutoLockReread(u)
  \/ \E u \in MonUsers : AutoLockStatus(u)
  \/ \E u \in MonUsers : AutoLockVerify(u)
  \/ \E u \in MonUsers : AutoLockLogin(u)
  \/ \E u \in MonUsers : AutoLockFinal(u)
  \/ TickStart
  \/ TickLoad
  \/ \E u \in MonUsers : CheckUserStatus(u)
  \/ BatchAdvance

SpecTickLock == InitLockMon /\ [][NextTickLock]_vars

\* ------------------------------------------------------------------ claims
\* The running tick's processBatch has returned normally.
BatchDone ==
  /\ tickPc = "idle"
  /\ Len(tickItems) > 0
  /\ tickI >= Len(tickItems)
  /\ ~tickAborted

\* Zero-based group number of the item at position j.
GroupOf(j) == (j - 1) \div concurrency

C2_BaselinePersists ==
  \A u \in Users :
    lastRun[u].kind = "baseline" => lastRun[u].wrote # Undefined /\ lastRun[u].alerts = 0

C7_BatchGroups ==
  LET n == Len(tickItems)
      g == Len(groupsLog)
  IN  /\ \A k \in 1..g : groupsLog[k] = Min(concurrency, n - (k - 1) * concurrency)
      /\ \A j \in 1..n : (hState[tickItems[j]] # "idle") <=> (GroupOf(j) < g)
      /\ \A i, j \in 1..n :
            (GroupOf(i) < GroupOf(j) /\ hState[tickItems[j]] # "idle")
              => hState[tickItems[i]] = "resolved"
      /\ \A u \in Users : handled[u] = IF hState[u] # "idle" THEN 1 ELSE 0
      /\ BatchDone => \A j \in 1..n : hState[tickItems[j]] = "resolved"
      /\ (BatchDone /\ n = 7 /\ concurrency = 3) => groupsLog = <<3, 3, 1>>

C7_Witness ==
  /\ BatchDone
  /\ Len(tickItems) = 7
  /\ concurrency = 3
  /\ groupsLog = <<3, 3, 1>>
  /\ \A j \in 1..7 : handled[tickItems[j]] = 1

\* C8: a failure inside one entity's handler never rejects its promise, so
\* processBatch is not aborted: when the tick is over every item, of the same
\* group and of every later group, has been handled.
C8_FaultIsolation ==
  /\ ~tickAborted
  /\ \A u \in Users : hState[u] # "rejected"
  /\ (tickPc = "idle" /\ \E u \in Users : hFailed[u])
       => \A j \in 1..Len(tickItems) :
            hState[tickItems[j]] = "resolved" /\ handled[tickItems[j]] = 1

C8_Witness ==
  /\ BatchDone
  /\ Len(groupsLog) >= 2
  /\ hFailed[tickItems[2]]
  /\ ~hFailed[tickItems[1]]
  /\ \A j \in 1..Len(tickItems) : hState[tickItems[j]] = "resolved"

PollerAtRest == pollPc \in {"stopped", "crashed"}

\* C5 (as claimed): when the first maxAttempts - 1 polls answer "not done, no
\* error" and poll number maxAttempts answers done, exactly one "succeeded"
\* message and no budget-exhausted message is dispatched.
C5_DoneOnLastAttempt ==
  (PollerAtRest /\ pollHist.doneAtLast)
    => dispatched["succeeded"] = 1 /\ dispatched["pending"] = 0

\* C6 (as claimed): when all maxAttempts polls answer "not done, no error",
\* exactly one budget-exhausted message and no "succeeded" or "failed" message
\* is dispatched.
C6_NeverDone ==
  (PollerAtRest /\ pollHist.allPending /\ attempts = maxAttempts)
    => /\ dispatched["pending"] = 1
       /\ dispatched["succeeded"] = 0
       /\ dispatched["failed"] = 0

\* The window of the claim, for hour h and bounds s, t.
ClaimedWindow(h, s, t) ==
  \/ s = t
  \/ s < t /\ s <= h /\ h < t
  \/ s > t /\ (h >= s \/ h < t)

\* C9: with the gate enabled, isInMaintenanceWindow answers true exactly when
\* startHour = endHour, or startHour < endHour and startHour <= h < endHour, or
\* startHour > endHour and (h >= startHour or h < endHour); (4,7) is in at 5 and
\* out at 8, (23,5) is in at 0 and 23 and out at 12, (4,4) is in at every hour.
C9_WindowFormula ==
  (up.gate # Undefined /\ maintenanceNotice # Undefined /\ maintenanceNotice[1].enabled)
    => LET h == up.gate[1].hour
           s == maintenanceNotice[1].startHour
           t == maintenanceNotice[1].endHour
           in == up.gate[1].inWindow
       IN  /\ in <=> ClaimedWindow(h, s, t)
           /\ (s = 4 /\ t = 7 /\ h = 5) => in
           /\ (s = 4 /\ t = 7 /\ h = 8) => ~in
           /\ (s = 23 /\ t = 5 /\ h \in {0, 23}) => in
           /\ (s = 23 /\ t = 5 /\ h = 12) => ~in
           /\ (s = 4 /\ t = 4) => in

C9_Witness ==
  /\ up.gate # Undefined
  /\ maintenanceNotice # Undefined
  /\ maintenanceNotice[1].enabled
  /\ maintenanceNotice[1].startHour = 23
  /\ maintenanceNotice[1].endHour = 5
  /\ up.gate[1].hour = 0
  /\ up.gate[1].inWindow

\* C10 (as claimed): an upload command that reaches the gate while the gate is
\* enabled and the window is active submits no upload, spawns no poller and
\* returns the configured message; a disabled or absent configuration never
\* blocks.
C10_GateBlocksUploads ==
  up.gate # Undefined =>
    LET on == /\ maintenanceNotice # Undefined
              /\ maintenanceNotice[1].enabled
              /\ ClaimedWindow(up.gate[1].hour, maintenanceNotice[1].startHour,
                               maintenanceNotice[1].endHour)
    IN  /\ on => /\ uploadsSubmitted = 0
                 /\ pollersSpawned = 0
                 /\ up.pc = "done" => up.reply = maintenanceNotice[1].message
        /\ (maintenanceNotice = Undefined \/ ~maintenanceNotice[1].enabled)
             => ~up.gate[1].blocked

\* C11 (as claimed): after ctx.on('dispose') has cleared isPluginActive, no
\* monitor handler and no job poller issues a remote call, a store write or a
\* message.
C11_NothingAfterDispose == lateActs = {}

\* C12: the table never holds two rows of one userId, also when two mai绑定
\* commands of one user have both passed the "already bound" read before
\* either creates its row.
C12_OneBindingPerUser == \A u \in Users : Len(store[u]) <= 1

\* Two commands of one user were past the read, one has created its row and
\* the other's create has been refused.
C12_Witness ==
  \E u \in MonUsers :
    /\ Len(store[u]) = 1
    /\ \E i, j \in Binders :
         /\ i # j
         /\ bindSlots[i] = [pc |-> "idle", userId |-> u, last |-> "created"]
         /\ bindSlots[j] = [pc |-> "idle", userId |-> u, last |-> "refused"]

C15_NoEscapedRejection == pollPc # "crashed"

\* C16: every run of poll adds one to attempts before its status query; when
\* the query rejects, the run dispatches no completion and no failure message,
\* re-arms the timer without any message while attempts < maxAttempts, and
\* otherwise goes to the budget-exhausted message of the catch block.
C16_TransportFailureRetries ==
  [][/\ (pollPc = "timer" /\ pollPc' = "query") => attempts' = attempts + 1
     /\ (pollPc = "query" /\ pollPc' # "query" /\ pollHist'.last.threw)
        => /\ attempts' = attempts
           /\ dispatched'["failed"] = dispatched["failed"]
           /\ dispatched'["succeeded"] = dispatched["succeeded"]
           /\ IF attempts < maxAttempts
                THEN pollPc' = "timer" /\ dispatched' = dispatched
                ELSE pollPc' = "sendCatch"]_vars

\* All maxAttempts status queries were made, the last one rejected, and the
\* poller stopped after the budget-exhausted message alone.
C16_Witness ==
  /\ pollPc = "stopped"
  /\ pollHist.last.threw
  /\ attempts = maxAttempts
  /\ dispatched = [k \in {"succeeded", "failed", "pending"} |->
                     IF k = "pending" THEN 1 ELSE 0]

\* C17 (as claimed): on an answered status query, detail.done produces the
\* completion message also when detail.error is set, an error without done
\* produces the failure message, and the budget-exhausted message is produced
\* only when neither holds and attempts >= maxAttempts.
C17_TerminalOrder ==
  [][(pollPc = "query" /\ pollPc' # "query" /\ ~pollHist'.last.threw)
       => LET o == pollHist'.last
          IN  /\ o.done
                   => dispatched' = [dispatched EXCEPT !["succeeded"] = Bump(@)]
              /\ (~o.done /\ o.err)
                   => dispatched' = [dispatched EXCEPT !["failed"] = Bump(@)]
              /\ (dispatched'["pending"] # dispatched["pending"])
                   => ~o.done /\ ~o.err /\ attempts >= maxAttempts]_vars

C20_DeliveryNeverRaises ==
  /\ \A u \in Users :
       /\ notice[u].sent <= 1
       /\ notice[u].sent = 1 => ~notice[u].logged
       /\ notice[u].logged => notice[u].tried = notice[u].n
       /\ (autoPc[u] = "idle" /\ notice[u].tried > 0)
            => notice[u].sent = 1 \/ notice[u].logged
  /\ pollPc \in {"timer", "query", "sendTerminal", "sendExhaust", "sendCatch", "stopped"}

PollerQuiescent ==
  \/ pollPc \in {"stopped", "crashed"}
  \/ pollPc = "timer" /\ ~isPluginActive

\* C21: attempts stays within 0..maxAttempts, every status query is issued by
\* a step that adds one to attempts from a value below maxAttempts (so at most
\* maxAttempts queries, one at a time), and whatever the status queries and the
\* sends answer, the poller ends up with nothing armed and nothing in flight.
C21_PollerTerminates ==
  /\ [](attempts \in 0..maxAttempts)
  /\ [][(pollPc' = "query" /\ pollPc # "query")
         => pollPc = "timer" /\ attempts < maxAttempts /\ attempts' = attempts + 1]_vars
  /\ <>[]PollerQuiescent

\* All maxAttempts status queries answered "not done, no error" and the poller
\* stopped.
C21_Witness ==
  /\ pollPc = "stopped"
  /\ attempts = maxAttempts
  /\ pollHist.allPending
  /\ ~pollHist.last.threw

\* C22 (as claimed): once a status query has answered done or an error, and
\* its message has been handed to bot.sendMessage, the poller arms no timer,
\* issues no query and hands over no second message, whether or not that send
\* resolves.
C22_TerminalIsFinal ==
  (dispatched["succeeded"] + dispatched["failed"] >= 1)
    => /\ pollPc \in {"sendTerminal", "stopped"}
       /\ dispatched["succeeded"] + dispatched["failed"] = 1
       /\ dispatched["pending"] = 0

\* C23: when checkUserStatus's re-read finds no row, or a row whose
\* alertEnabled is not true, the handler returns at its guards: it does not reach
\* the status step, writes no row and sends nothing.
C23_RereadSkips ==
  [][\A u \in Users :
       (/\ hState[u] = "pending"
        /\ hState'[u] # "pending"
        /\ (Len(store[u]) = 0 \/ ~store[u][1].alertEnabled))
       => /\ lastRun'[u] = SkipRun
          /\ store' = store
          /\ prevObs' = prevObs
          /\ alertsSent' = alertsSent]_vars

\* A tick loaded the binding, mai解绑 removed it before its handler's re-read
\* returned, and the handler skipped it.
C23_Witness ==
  \E u \in MonUsers :
    /\ u \in SeqRange(tickItems)
    /\ hState[u] = "resolved"
    /\ ~hFailed[u]
    /\ lastRun[u] = SkipRun
    /\ Len(store[u]) = 0

\* The row autoLockAccount may lock: present, protectionMode on, not locked.
RelockEligible(rows) ==
  /\ Len(rows) > 0
  /\ rows[1].protectionMode
  /\ ~rows[1].isLocked

C27_ParseLoginStatus ==
  parsed # Undefined =>
    (parsed[1] = TRUE <=>
       \/ isLogin.t = "boolean" /\ isLogin.b = TRUE
       \/ isLogin.t = "NaN"
       \/ isLogin.t = "number" /\ isLogin.n # 0
       \/ isLogin.t = "string" /\ ToLowerCase(Trim(isLogin.s)) \in LoginWords)

\* " yEs" went through the call and came back true.
C27_Witness ==
  /\ parsed = Some(TRUE)
  /\ isLogin = [t |-> "string", s |-> <<" ", "y", "E", "s">>]

C33_SwitchOffStopsTick ==
  [][(tickPc = "idle" /\ ticksLeft' # ticksLeft /\ ~alertFeatureEnabled)
       => /\ tickPc' = "idle"
          /\ tickItems' = tickItems /\ hState' = hState /\ handled' = handled
          /\ store' = store /\ alertsSent' = alertsSent /\ prevObs' = prevObs]_vars

\* The switch is off, a binding has alertEnabled on, every tick has come and
\* no handler was started.
C33_Witness ==
  /\ ~alertFeatureEnabled
  /\ adminSw = SwIdle("off")
  /\ ticksLeft = 0
  /\ tickPc = "idle"
  /\ tickItems = << >>
  /\ \A u \in Users : handled[u] = 0 /\ hState[u] = "idle"
  /\ \E u \in MonUsers : Len(store[u]) > 0 /\ store[u][1].alertEnabled

\* C34: when the admin command that turns the switch off completes,
\* alertFeatureEnabled is off and no binding has alertEnabled on, also with a
\* maialert on running during the command's pass over the bindings.
C34_SwitchOffClearsAll ==
  [][(adminSw.pc \in {"saveGet", "saveSet", "saveCreate"}
        /\ adminSw'.pc = "idle" /\ adminSw'.last = "off")
       => /\ ~alertFeatureEnabled'
          /\ \A u \in Users :
               Len(store'[u]) > 0 => ~store'[u][1].alertEnabled]_vars

\* C35: the global broadcast switch survives a restart.  Once an admin command
\* has saved a value and no load or command is in flight, the in-memory switch
\* and the stored row both hold the value saved last, also after the plugin was
\* started again; and maibot_settings never holds more than one row for the
\* switch.
C35_SwitchSurvivesRestart ==
  /\ Len(settings) <= 1
  /\ (loader = "done" /\ adminSw.pc = "idle" /\ adminSw.last # "none")
       => /\ alertFeatureEnabled = (adminSw.last = "on")
          /\ settings = <<adminSw.last = "on">>

\* C36: a maialert command (on, off, set) that completes leaves every other
\* binding as it was, adds and removes no row, and changes no column of the
\* addressed binding but alertEnabled and the guild; the self-service form
\* asked for the state the binding already had changes nothing in the store.
C36_MaialertFrame ==
  [][(cmd.kind = "alert" /\ cmd'.kind = "idle")
       => /\ \A v \in Users : v # cmd.userId => store'[v] = store[v]
          /\ Len(store'[cmd.userId]) = Len(store[cmd.userId])
          /\ \A k \in 1..Len(store[cmd.userId]) :
               \A f \in DOMAIN store[cmd.userId][k] \ {"alertEnabled", "guildId"} :
                 store'[cmd.userId][k][f] = store[cmd.userId][k][f]
          /\ (~cmd.admin /\ cmd.same) => store' = store]_vars

\* maialert on from guild 2 has completed on the binding that is locked under
\* protection with a known status, next to another binding.
C36_Witness ==
  /\ cmd = Idle
  /\ \E u \in AlertUsers :
       /\ Len(store[u]) > 0
       /\ store[u][1] = [Binding(TRUE, TRUE, TRUE, Some(FALSE), 1) EXCEPT !.guildId = Some(2)]
       /\ \E v \in AlertUsers : v # u /\ Len(store[v]) > 0

====
